---------------------------- MODULE Spec2Model ----------------------------
(***************************************************************************)
(* A model of the bitcoin_datapipeline services:                           *)
(*   - utils/retry.py            CircuitBreaker                            *)
(*   - clients/kinesis_client.py KinesisProducer (batching bus producer)   *)
(*   - clients/binance_rest.py   RateLimiter, backfill_agg_trades          *)
(*   - utils/deduplication.py    RecordDeduplicator                        *)
(*   - scheduler.py              RestScheduler._collection_loop            *)
(*   - db_writer.py              DatabaseWriter.write_batch                *)
(*   - utils/retry.py            exponential_backoff                       *)
(*   - clients/binance_sbe.py    BinanceSBEClient.start_streaming          *)
(*   - stream_aggregator.py      StreamAggregator with RedisWriter         *)
(*   - feature_builder.py        FeatureBuilder.build_features             *)
(*   - kinesis_consumer.py       KinesisConsumer (shard iterators)         *)
(*   - s3_reader.py, etl_orchestrator.py   the ETL of partition objects    *)
(*   - writers/s3_writer.py      S3BronzeWriter, with transformer.py       *)
(*   - clients/binance_rest.py   backfill_agg_trades over the pages        *)
(* Every component has its own variables, its own actions and its own      *)
(* specification (SpecBreaker, SpecProducer, ...); a specification leaves   *)
(* the variables of the other components unchanged.                        *)
(* Time is a discrete clock per component; a synchronous stretch of code   *)
(* (between two awaits of the asyncio event loop) is one atomic action.    *)
(***************************************************************************)
EXTENDS Integers, Sequences, FiniteSets, Bags, TLC

None == -1

Max(a, b) == IF a >= b THEN a ELSE b

Min(a, b) == IF a <= b THEN a ELSE b

Range(s) == {s[i] : i \in 1..Len(s)}

Pow(b, n) ==
    LET F[k \in 0..n] == IF k = 0 THEN 1 ELSE b * F[k - 1]
    IN F[n]

(***************************************************************************)
(* Bounds of the model.                                                    *)
(***************************************************************************)
\* CircuitBreaker(failure_threshold, recovery_timeout): constructor
\* parameters, scaled down (defaults 5 and 60.0 s).
FailureThreshold == 2

RecoveryTimeout == 2

\* wrapped calls that may be awaiting at the same time through one breaker
MaxInFlight == 2

\* last value of the breaker's clock
MaxCbTime == 5

VARIABLES
    cb,          \* the CircuitBreaker object: state, failure_count, last_failure_time
    cb_now,      \* asyncio.get_event_loop().time()
    cb_inflight, \* wrapped calls that were invoked and have not returned yet
    cb_consec,   \* history: failures recorded since the last success
    cb_failAt,   \* history: time of the last recorded failure
    cb_last,     \* history: what the most recent call() did on entry
    cb_probes,   \* history: calls in flight that were invoked as the HALF_OPEN probe
    cb_ret       \* history: how the most recent wrapped call ended

cbVars == <<cb, cb_now, cb_inflight, cb_consec, cb_failAt, cb_last, cb_probes, cb_ret>>

(***************************************************************************)
(* utils/retry.py: class CircuitBreaker                                    *)
(***************************************************************************)
BreakerStates == {"CLOSED", "OPEN", "HALF_OPEN"}

\* CircuitBreaker.__init__
NewBreaker == [state |-> "CLOSED", failure_count |-> 0, last_failure_time |-> None]

\* a comparison that lets the breaker through one tick early
ShouldAttemptResetEarly(b, t) ==
    IF b.last_failure_time = None
    THEN FALSE
    ELSE t - b.last_failure_time >= RecoveryTimeout - 1

\* CircuitBreaker._should_attempt_reset
ShouldAttemptReset(b, t) ==
    IF b.last_failure_time = None
    THEN FALSE
    ELSE t - b.last_failure_time >= RecoveryTimeout

\* CircuitBreaker._record_failure
RecordFailure(b, t) ==
    [state |-> IF b.failure_count + 1 >= FailureThreshold THEN "OPEN" ELSE b.state,
     failure_count |-> b.failure_count + 1,
     last_failure_time |-> t]

\* CircuitBreaker.call, up to the invocation of func: TRUE when the call
\* raises "Circuit breaker is OPEN" without invoking func.
FailsFast(b, t) == b.state = "OPEN" /\ ~ShouldAttemptReset(b, t)

\* CircuitBreaker.call, the breaker as it is when func is invoked
OnInvoke(b, t) ==
    IF b.state = "OPEN" /\ ShouldAttemptReset(b, t)
    THEN [b EXCEPT !.state = "HALF_OPEN"]
    ELSE b

\* a success path that resets the count and leaves the state alone
OnSuccessKeepsState(b) == [b EXCEPT !.failure_count = 0]

\* CircuitBreaker.call, func returned normally
OnSuccess(b) ==
    [b EXCEPT !.state = IF b.state = "HALF_OPEN" THEN "CLOSED" ELSE b.state,
              !.failure_count = 0]

\* CircuitBreaker.call, func raised: only expected_exception is recorded
OnFailure(b, t, expected) == IF expected THEN RecordFailure(b, t) ELSE b

InitBreaker ==
    /\ cb = NewBreaker
    /\ cb_now = 0
    /\ cb_inflight = 0
    /\ cb_consec = 0
    /\ cb_failAt = None
    /\ cb_last = [kind |-> "none", consec |-> 0, since |-> None,
                  before |-> "CLOSED", after |-> "CLOSED"]
    /\ cb_probes = 0
    /\ cb_ret = [kind |-> "none"]

\* await circuit_breaker.call(func): entry, up to the first await
CbCallEnter ==
    /\ cb_inflight < MaxInFlight
    /\ IF FailsFast(cb, cb_now)
       THEN UNCHANGED <<cb, cb_inflight, cb_probes>>
       ELSE /\ cb' = OnInvoke(cb, cb_now)
            /\ cb_inflight' = cb_inflight + 1
            /\ cb_probes' = IF cb.state = "OPEN" THEN cb_probes + 1 ELSE cb_probes
    /\ cb_last' = [kind |-> IF FailsFast(cb, cb_now) THEN "fastfail" ELSE "invoked",
                   consec |-> cb_consec,
                   since |-> IF cb_failAt = None THEN None
                             ELSE cb_now - cb_failAt,
                   before |-> cb.state,
                   after |-> cb'.state]
    /\ UNCHANGED <<cb_now, cb_consec, cb_failAt, cb_ret>>

\* one of the calls in flight returns: the probe or another call
Returning(probe) ==
    /\ cb_inflight > 0
    /\ IF probe THEN cb_probes > 0 ELSE cb_inflight > cb_probes
    /\ cb_inflight' = cb_inflight - 1
    /\ cb_probes' = IF probe THEN cb_probes - 1 ELSE cb_probes

\* func returns normally
CbCallSucceeds(probe) ==
    /\ Returning(probe)
    /\ cb' = OnSuccess(cb)
    /\ cb_consec' = 0
    /\ cb_ret' = [kind |-> "success", probe |-> probe, expected |-> TRUE,
                  before |-> cb.state, after |-> cb'.state,
                  failure_count |-> cb'.failure_count]
    /\ UNCHANGED <<cb_now, cb_failAt, cb_last>>

\* func raises; expected = the exception is an instance of expected_exception
CbCallFails(expected, probe) ==
    /\ Returning(probe)
    /\ cb' = OnFailure(cb, cb_now, expected)
    /\ cb_consec' = IF expected THEN cb_consec + 1 ELSE cb_consec
    /\ cb_failAt' = IF expected THEN cb_now ELSE cb_failAt
    /\ cb_ret' = [kind |-> "failure", probe |-> probe, expected |-> expected,
                  before |-> cb.state, after |-> cb'.state,
                  failure_count |-> cb'.failure_count]
    /\ UNCHANGED <<cb_now, cb_last>>

CbTick ==
    /\ cb_now < MaxCbTime
    /\ cb_now' = cb_now + 1
    /\ UNCHANGED <<cb, cb_inflight, cb_consec, cb_failAt, cb_last, cb_probes, cb_ret>>

NextBreaker ==
    \/ CbCallEnter
    \/ \E probe \in BOOLEAN : CbCallSucceeds(probe)
    \/ \E expected \in BOOLEAN, probe \in BOOLEAN : CbCallFails(expected, probe)
    \/ CbTick


(***************************************************************************)
(* clients/kinesis_client.py: class KinesisProducer                        *)
(*                                                                         *)
(* Tasks of the event loop: the caller of put_record (one task, the        *)
(* stream processor awaits each put_record), the background _flush_loop,   *)
(* and the caller of stop().  A _flush_stream coroutine runs for an owner  *)
(* ("put": inline in put_record, "loop": child of the flush loop's gather, *)
(* "stop": child of the final flush's gather) and a stream.                *)
(***************************************************************************)
Streams == {"trade", "bba"}

Owners == {"put", "loop", "stop"}

\* config.kinesis_batch_size (default 500), scaled down
BatchSize == 2

\* config.kinesis_flush_interval_seconds, in ticks
FlushInterval == 2

\* longest time one put_records call takes, in ticks
PutLatency == 1

\* longest backoff sleep between two attempts of _send_batch, in ticks
BackoffTicks == 1

\* the re-queue limit of _flush_stream (1000 in the source), scaled down
HighWater == 3

\* @retry_with_backoff(max_attempts=3, ...) on _send_batch
MaxAttempts == 3

\* records put_record accepts in one run
MaxRecords == 2

\* put_records responses that report a failure in one run
MaxFaults == 3

\* last value of the producer's clock
MaxPTime == 4

VARIABLES
    kp,        \* the KinesisProducer object and its _flush_stream coroutines
    p_phase,   \* "new", "running", "cancelling", "finalflush", "stopped"
    p_loop,    \* the _flush_loop task: pc and the end of its sleep
    p_orphan,  \* put_records calls still running in the executor after a cancel
    p_bus,     \* per stream, the ids the bus acknowledged, in order
    p_now,     \* time.time()
    p_nextId,  \* number of records accepted so far, plus one
    p_faults,  \* failing responses so far
    p_resp     \* history: the per-record failures reported by the step just taken

prodVars == <<kp, p_phase, p_loop, p_orphan, p_bus, p_now, p_nextId, p_faults, p_resp>>

NoResponse == [kind |-> "none"]

IdleTask == [pc |-> "idle", records |-> <<>>, attempt |-> 0, due |-> None]

Ids(records) == {records[i].id : i \in 1..Len(records)}

IdSeq(records) == [i \in 1..Len(records) |-> records[i].id]

\* the subsequence of seq at the positions in idx
Pick(seq, idx) ==
    LET F[i \in 0..Len(seq)] ==
            IF i = 0 THEN <<>>
            ELSE IF i \in idx THEN Append(F[i - 1], seq[i]) ELSE F[i - 1]
    IN F[Len(seq)]

Count(seq, x) == Cardinality({i \in 1..Len(seq) : seq[i] = x})

IsPrefix(a, b) == Len(a) <= Len(b) /\ SubSeq(b, 1, Len(a)) = a

\* KinesisProducer.__init__
NewProducer ==
    [batches |-> [s \in Streams |-> <<>>],
     cbs |-> [s \in Streams |-> NewBreaker],
     flush |-> [o \in Owners |-> [s \in Streams |-> IdleTask]],
     last_flush_time |-> 0,
     failed_records |-> 0,
     total_records |-> 0,
     errors |-> 0,
     counted |-> {},
     consec_failed |-> [s \in Streams |-> 0]]

\* _flush_stream, the except branch: re-queue behind whatever is queued,
\* count the records as failed
FlushFailed(P, o, s, records) ==
    [P EXCEPT !.batches[s] = IF Len(@) < HighWater THEN @ \o records ELSE @,
              !.failed_records = @ + Len(records),
              !.errors = @ + 1,
              !.counted = @ \cup Ids(records),
              !.consec_failed[s] = @ + 1,
              !.flush[o][s] = IdleTask]

\* _flush_stream up to its first await: take the whole queue, then either
\* the breaker raises at once or _send_batch hands the records to put_records
StartFlush(P, o, s, t) ==
    IF P.batches[s] = <<>>
    THEN P
    ELSE LET records == P.batches[s]
             Q == [P EXCEPT !.batches[s] = <<>>]
         IN IF FailsFast(P.cbs[s], t)
            THEN FlushFailed(Q, o, s, records)
            ELSE [Q EXCEPT !.cbs[s] = OnInvoke(@, t),
                           !.flush[o][s] = [pc |-> "put", records |-> records,
                                            attempt |-> 0, due |-> t + PutLatency]]

\* _flush_all_batches: gather(_flush_stream(s) for every stream)
StartFlushAll(P, o, t) ==
    LET RECURSIVE Go(_, _)
        Go(Q, todo) ==
            IF todo = {} THEN Q
            ELSE LET s == CHOOSE x \in todo : TRUE
                 IN Go(StartFlush(Q, o, s, t), todo \ {s})
    IN Go(P, Streams)

\* _flush_stream after circuit_breaker.call returned: the statistics
FlushSucceeded(P, o, s) ==
    [P EXCEPT !.cbs[s] = OnSuccess(@),
              !.total_records = @ + Len(P.flush[o][s].records),
              !.consec_failed[s] = 0,
              !.flush[o][s] = IdleTask]

\* _send_batch raised ClientError: exponential_backoff sleeps and tries
\* again, or re-raises after the last attempt; the breaker then records the
\* failure and _flush_stream re-queues the batch
SendRaisedClientError(P, o, s, t) ==
    LET task == P.flush[o][s]
    IN IF task.attempt = MaxAttempts - 1
       THEN FlushFailed([P EXCEPT !.cbs[s] = OnFailure(@, t, TRUE)], o, s, task.records)
       ELSE [P EXCEPT !.flush[o][s] = [task EXCEPT !.pc = "backoff",
                                                   !.due = t + BackoffTicks]]

\* _send_batch, the response reports the records at the positions in failed:
\* they are appended to the stream's queue and ClientError is raised
SendPartialFailure(P, o, s, t, failed) ==
    SendRaisedClientError(
        [P EXCEPT !.batches[s] = @ \o Pick(P.flush[o][s].records, failed)], o, s, t)

\* an exception that is no ClientError passes exponential_backoff and the
\* breaker unrecorded and ends in the except branch of _flush_stream
SendRaisedOther(P, o, s, t) ==
    FlushFailed([P EXCEPT !.cbs[s] = OnFailure(@, t, FALSE)], o, s, P.flush[o][s].records)

Busy(P, o) == \E s \in Streams : P.flush[o][s].pc # "idle"

InitProducer ==
    /\ kp = NewProducer
    /\ p_phase = "new"
    /\ p_loop = [pc |-> "off", wake |-> None]
    /\ p_orphan = [s \in Streams |-> IdleTask]
    /\ p_bus = [s \in Streams |-> <<>>]
    /\ p_now = 0
    /\ p_nextId = 1
    /\ p_faults = 0
    /\ p_resp = NoResponse

\* KinesisProducer.start
PStart ==
    /\ p_phase = "new"
    /\ p_phase' = "running"
    /\ p_loop' = [pc |-> "sleep", wake |-> p_now + FlushInterval]
    /\ UNCHANGED <<kp, p_orphan, p_bus, p_now, p_nextId, p_faults>>
    /\ p_resp' = NoResponse

\* KinesisProducer.put_record: append, and flush the stream inline when the
\* queue has reached batch_size
PutRecord(s) ==
    /\ p_phase = "running"
    /\ ~Busy(kp, "put")
    /\ p_nextId <= MaxRecords
    /\ LET rec == [id |-> p_nextId, ts |-> p_now]
           P == [kp EXCEPT !.batches[s] = Append(@, rec)]
       IN kp' = IF Len(P.batches[s]) >= BatchSize THEN StartFlush(P, "put", s, p_now) ELSE P
    /\ p_nextId' = p_nextId + 1
    /\ UNCHANGED <<p_phase, p_loop, p_orphan, p_bus, p_now, p_faults>>
    /\ p_resp' = NoResponse

\* _flush_loop: the sleep is over
LoopWake ==
    /\ p_loop.pc = "sleep"
    /\ p_now >= p_loop.wake
    /\ IF p_now - kp.last_flush_time >= FlushInterval
       THEN /\ kp' = StartFlushAll(kp, "loop", p_now)
            /\ p_loop' = [pc |-> "flush", wake |-> None]
       ELSE /\ p_loop' = [pc |-> "sleep", wake |-> p_now + FlushInterval]
            /\ UNCHANGED kp
    /\ UNCHANGED <<p_phase, p_orphan, p_bus, p_now, p_nextId, p_faults>>
    /\ p_resp' = NoResponse

\* _flush_all_batches in the loop: gather returned, the loop sleeps again
LoopJoin ==
    /\ p_loop.pc = "flush"
    /\ ~Busy(kp, "loop")
    /\ kp' = [kp EXCEPT !.last_flush_time = p_now]
    /\ p_loop' = [pc |-> "sleep", wake |-> p_now + FlushInterval]
    /\ UNCHANGED <<p_phase, p_orphan, p_bus, p_now, p_nextId, p_faults>>
    /\ p_resp' = NoResponse

\* put_records returned a response without failed records
PutRecordsOk(o, s) ==
    /\ kp.flush[o][s].pc = "put"
    /\ p_bus' = [p_bus EXCEPT ![s] = @ \o IdSeq(kp.flush[o][s].records)]
    /\ kp' = FlushSucceeded(kp, o, s)
    /\ UNCHANGED <<p_phase, p_loop, p_orphan, p_now, p_nextId, p_faults>>
    /\ p_resp' = NoResponse

\* put_records returned FailedRecordCount > 0: the records at the positions
\* in failed carry an ErrorCode, the bus stored the others
PutRecordsPartial(o, s) ==
    /\ kp.flush[o][s].pc = "put"
    /\ p_faults < MaxFaults
    /\ \E failed \in (SUBSET (1..Len(kp.flush[o][s].records))) \ {{}} :
        LET records == kp.flush[o][s].records
        IN /\ p_bus' = [p_bus EXCEPT
                          ![s] = @ \o IdSeq(Pick(records, (1..Len(records)) \ failed))]
           /\ kp' = SendPartialFailure(kp, o, s, p_now, failed)
           /\ p_resp' = [kind |-> "partial", stream |-> s,
                         failed |-> IdSeq(Pick(records, failed))]
    /\ p_faults' = p_faults + 1
    /\ UNCHANGED <<p_phase, p_loop, p_orphan, p_now, p_nextId>>

\* put_records raised; client = the exception is a botocore ClientError
PutRecordsRaises(o, s, client) ==
    /\ kp.flush[o][s].pc = "put"
    /\ p_faults < MaxFaults
    /\ kp' = IF client THEN SendRaisedClientError(kp, o, s, p_now)
             ELSE SendRaisedOther(kp, o, s, p_now)
    /\ p_faults' = p_faults + 1
    /\ UNCHANGED <<p_phase, p_loop, p_orphan, p_bus, p_now, p_nextId>>
    /\ p_resp' = NoResponse

\* exponential_backoff: the sleep is over, _send_batch is called again
BackoffEnds(o, s) ==
    /\ kp.flush[o][s].pc = "backoff"
    /\ p_now = kp.flush[o][s].due
    /\ kp' = [kp EXCEPT !.flush[o][s] = [@ EXCEPT !.pc = "put",
                                                  !.attempt = @ + 1,
                                                  !.due = p_now + PutLatency]]
    /\ UNCHANGED <<p_phase, p_loop, p_orphan, p_bus, p_now, p_nextId, p_faults>>
    /\ p_resp' = NoResponse

\* the flush loop's children after task.cancel(): CancelledError is no
\* Exception, so no except branch runs and the records they hold are gone
CancelChildren(P) ==
    [P EXCEPT !.flush["loop"] = [s \in Streams |-> IdleTask]]

\* KinesisProducer.stop, up to "await self._flush_task"
StopBegin ==
    /\ p_phase = "running"
    /\ p_phase' = "cancelling"
    /\ p_loop' = [pc |-> "off", wake |-> None]
    /\ kp' = CancelChildren(kp)
    /\ p_orphan' = [s \in Streams |->
                      IF kp.flush["loop"][s].pc = "put" THEN kp.flush["loop"][s]
                      ELSE p_orphan[s]]
    /\ UNCHANGED <<p_bus, p_now, p_nextId, p_faults>>
    /\ p_resp' = NoResponse

\* KinesisProducer.stop: the final _flush_all_batches starts
StopFinalFlush ==
    /\ p_phase = "cancelling"
    /\ p_phase' = "finalflush"
    /\ kp' = StartFlushAll(kp, "stop", p_now)
    /\ UNCHANGED <<p_loop, p_orphan, p_bus, p_now, p_nextId, p_faults>>
    /\ p_resp' = NoResponse

\* KinesisProducer.stop returns
StopReturn ==
    /\ p_phase = "finalflush"
    /\ ~Busy(kp, "stop")
    /\ p_phase' = "stopped"
    /\ kp' = [kp EXCEPT !.last_flush_time = p_now]
    /\ UNCHANGED <<p_loop, p_orphan, p_bus, p_now, p_nextId, p_faults>>
    /\ p_resp' = NoResponse

\* a put_records call whose awaiting coroutine was cancelled finishes in its
\* executor thread; acked = positions the bus stored; nobody reads the result
OrphanReturns(s) ==
    /\ p_orphan[s].pc = "put"
    /\ \E acked \in SUBSET (1..Len(p_orphan[s].records)) :
        /\ (acked # 1..Len(p_orphan[s].records)) => p_faults < MaxFaults
        /\ p_faults' = IF acked # 1..Len(p_orphan[s].records) THEN p_faults + 1 ELSE p_faults
        /\ p_bus' = [p_bus EXCEPT ![s] = @ \o IdSeq(Pick(p_orphan[s].records, acked))]
    /\ p_orphan' = [p_orphan EXCEPT ![s] = IdleTask]
    /\ UNCHANGED <<kp, p_phase, p_loop, p_now, p_nextId>>
    /\ p_resp' = NoResponse

\* no sleep and no put_records call is overdue, and no task is ready to run
\* on without waiting (a gather whose children are done, stop() after cancel)
NothingDue ==
    /\ p_loop.pc = "sleep" => p_now < p_loop.wake
    /\ p_loop.pc = "flush" => Busy(kp, "loop")
    /\ p_phase # "cancelling"
    /\ p_phase = "finalflush" => Busy(kp, "stop")
    /\ \A o \in Owners, s \in Streams :
          kp.flush[o][s].pc # "idle" => p_now < kp.flush[o][s].due
    /\ \A s \in Streams : p_orphan[s].pc # "idle" => p_now < p_orphan[s].due

\* the clock starts with start() and is not followed after stop() has
\* returned and the last executor thread has finished
PTick ==
    /\ p_now < MaxPTime
    /\ p_phase # "new"
    /\ p_phase = "stopped" => \E s \in Streams : p_orphan[s].pc # "idle"
    /\ NothingDue
    /\ p_now' = p_now + 1
    /\ UNCHANGED <<kp, p_phase, p_loop, p_orphan, p_bus, p_nextId, p_faults>>
    /\ p_resp' = NoResponse

NextProducer ==
    \/ PStart
    \/ \E s \in Streams : PutRecord(s)
    \/ LoopWake
    \/ LoopJoin
    \/ \E o \in Owners, s \in Streams : PutRecordsOk(o, s)
    \/ \E o \in Owners, s \in Streams : PutRecordsPartial(o, s)
    \/ \E o \in Owners, s \in Streams, client \in BOOLEAN : PutRecordsRaises(o, s, client)
    \/ \E o \in Owners, s \in Streams : BackoffEnds(o, s)
    \/ StopBegin
    \/ StopFinalFlush
    \/ StopReturn
    \/ \E s \in Streams : OrphanReturns(s)
    \/ PTick

(***************************************************************************)
(* clients/binance_rest.py: class RateLimiter                              *)
(*                                                                         *)
(* Time is counted in ticks of 60 / (Rate * TokenTicks) seconds, so that   *)
(* the bucket gains one token every TokenTicks ticks and a 60-second       *)
(* window is Rate * TokenTicks ticks.  tokens is kept in units of          *)
(* 1 / TokenTicks of a token, which makes the refill and the wait time of  *)
(* acquire() whole numbers.                                                *)
(***************************************************************************)
\* requests_per_minute
Rate == 2

\* ticks in which the bucket gains one token
TokenTicks == 2

\* last value of the limiter's clock
MaxLimTime == 8

Window == Rate * TokenTicks

\* tasks that call acquire() on the one limiter
NumCallers == 2

Callers == 1..NumCallers

VARIABLES
    lim,          \* the RateLimiter: tokens, last_update
    lim_sleeper,  \* the wake time of the acquire() that sleeps holding the lock
    lim_now,      \* time.time()
    lim_queue,    \* callers inside acquire(), in the order of asyncio.Lock:
                  \* the head holds the lock or is the next to get it
    lim_returns   \* history: the times at which acquire() calls returned

limVars == <<lim, lim_sleeper, lim_now, lim_queue, lim_returns>>

\* RateLimiter.__init__
NewLimiter == [tokens |-> Rate * TokenTicks, last_update |-> 0]

\* acquire(): the refill at the top of the critical section
Refill(l, t) ==
    [tokens |-> Min(Rate * TokenTicks, l.tokens + (t - l.last_update)),
     last_update |-> t]

\* a lock that is never handed on
ReleaseNever(queue) == queue

\* "async with self.lock" ends: the holder leaves, the next waiter is first
Release(queue) == Tail(queue)

InitLimiter ==
    /\ lim = NewLimiter
    /\ lim_sleeper = None
    /\ lim_now = 0
    /\ lim_queue = <<>>
    /\ lim_returns = <<>>

\* a task calls acquire() and queues for the lock; the clock of the model
\* ends at MaxLimTime, so calls start while there is time for the callers
\* ahead to sleep one token time each
AcquireCalled(c) ==
    /\ c \notin Range(lim_queue)
    /\ lim_now + (Len(lim_queue) + 1) * TokenTicks <= MaxLimTime
    /\ lim_queue' = Append(lim_queue, c)
    /\ UNCHANGED <<lim, lim_sleeper, lim_now, lim_returns>>

\* acquire() gets the lock, finds a token and returns
AcquireToken ==
    /\ lim_queue # <<>>
    /\ lim_sleeper = None
    /\ Refill(lim, lim_now).tokens >= TokenTicks
    /\ lim' = [Refill(lim, lim_now) EXCEPT !.tokens = @ - TokenTicks]
    /\ lim_queue' = Release(lim_queue)
    /\ lim_returns' = Append(lim_returns, lim_now)
    /\ UNCHANGED <<lim_sleeper, lim_now>>

\* acquire() gets the lock, finds less than one token and sleeps for
\* (1 - tokens) / (rate / 60) seconds without releasing the lock
AcquireSleeps ==
    /\ lim_queue # <<>>
    /\ lim_sleeper = None
    /\ Refill(lim, lim_now).tokens < TokenTicks
    /\ lim' = Refill(lim, lim_now)
    /\ lim_sleeper' = lim_now + (TokenTicks - Refill(lim, lim_now).tokens)
    /\ UNCHANGED <<lim_now, lim_queue, lim_returns>>

\* the sleep is over: tokens = 0, the lock is released, acquire() returns
AcquireWakes ==
    /\ lim_sleeper # None
    /\ lim_now = lim_sleeper
    /\ lim' = [lim EXCEPT !.tokens = 0]
    /\ lim_sleeper' = None
    /\ lim_queue' = Release(lim_queue)
    /\ lim_returns' = Append(lim_returns, lim_now)
    /\ UNCHANGED lim_now

\* time passes while no task is ready to run: nobody is inside acquire(),
\* or the holder of the lock sleeps
LimTick ==
    /\ lim_now < MaxLimTime
    /\ lim_queue # <<>> => lim_sleeper # None
    /\ lim_sleeper # None => lim_now < lim_sleeper
    /\ lim_now' = lim_now + 1
    /\ UNCHANGED <<lim, lim_sleeper, lim_queue, lim_returns>>

NextLimiter ==
    \/ \E c \in Callers : AcquireCalled(c)
    \/ AcquireToken
    \/ AcquireSleeps
    \/ AcquireWakes
    \/ LimTick

(***************************************************************************)
(* utils/deduplication.py: class RecordDeduplicator                        *)
(*                                                                         *)
(* is_unique is synchronous: one call is one step, and the clock reads of  *)
(* the call and of the sweep it runs see the same time.  The timestamp     *)
(* argument is converted to record_time and then never used, so a call is  *)
(* determined by its symbol and record id.                                 *)
(***************************************************************************)
\* window_size_seconds, in ticks
WindowSeconds == 3

\* cleanup_interval_seconds, in ticks
CleanupInterval == 1

\* max_records_per_symbol
MaxPerSymbol == 1

\* record ids 1..NumIds per symbol
NumIds == 2

\* is_unique calls in one run
MaxChecks == 4

\* last value of the deduplicator's clock
MaxDdTime == 4

Symbols == {"BTCUSDT", "ETHUSDT"}

RecordIds == 1..NumIds

VARIABLES
    dd,           \* the RecordDeduplicator
    dd_now,       \* time.time()
    dd_call,      \* history: the last is_unique call and what it returned
    dd_lastTrue,  \* history: per (symbol, id) the time is_unique last returned True
    dd_trimmed    \* history: per (symbol, id) whether _trim_symbol_records
                  \* removed the entry since is_unique last returned True

ddVars == <<dd, dd_now, dd_call, dd_lastTrue, dd_trimmed>>

\* RecordDeduplicator.__init__; seen[symbol][id] = None: the id is no key
NewDeduplicator ==
    [seen |-> [sym \in Symbols |-> [id \in RecordIds |-> None]],
     order |-> [sym \in Symbols |-> <<>>],
     last_cleanup |-> 0,
     stats |-> [total_checks |-> 0, duplicates_found |-> 0, unique_records |-> 0,
                cleanup_runs |-> 0, records_cleaned |-> 0]]

SeenCount(seen) == Cardinality({id \in RecordIds : seen[id] # None})

Filter(seq, Keep(_)) ==
    LET F[i \in 0..Len(seq)] ==
            IF i = 0 THEN <<>>
            ELSE IF Keep(seq[i]) THEN Append(F[i - 1], seq[i]) ELSE F[i - 1]
    IN F[Len(seq)]

\* the mutation of CutoffTime: the sweep drops entries two ticks early
CutoffTimeEarly(t) == t - WindowSeconds + 2

\* _cleanup_old_records: cutoff_time
CutoffTime(t) == t - WindowSeconds

\* _cleanup_old_records
CleanupOldRecords(D, t) ==
    LET Old(sym) == {id \in RecordIds :
                        D.seen[sym][id] # None /\ D.seen[sym][id] < CutoffTime(t)}
        Young(e) == e.ts >= CutoffTime(t)
        cleaned == Cardinality({p \in Symbols \X RecordIds : p[2] \in Old(p[1])})
    IN [D EXCEPT
          !.seen = [sym \in Symbols |->
                      [id \in RecordIds |->
                          IF id \in Old(sym) THEN None ELSE D.seen[sym][id]]],
          !.order = [sym \in Symbols |-> Filter(D.order[sym], Young)],
          !.last_cleanup = t,
          !.stats.cleanup_runs = @ + 1,
          !.stats.records_cleaned = @ + cleaned]

\* _trim_symbol_records: the popleft loop; the result names what was removed
RECURSIVE TrimLoop(_, _, _, _)
TrimLoop(seen, order, todo, removed) ==
    IF order = <<>> \/ todo <= 0
    THEN [seen |-> seen, order |-> order, removed |-> removed]
    ELSE LET id == Head(order).id
         IN IF seen[id] # None
            THEN TrimLoop([seen EXCEPT ![id] = None], Tail(order), todo - 1,
                          removed \cup {id})
            ELSE TrimLoop(seen, Tail(order), todo, removed)

\* _trim_symbol_records
TrimSymbolRecords(D, sym) ==
    LET r == TrimLoop(D.seen[sym], D.order[sym],
                      SeenCount(D.seen[sym]) - MaxPerSymbol, {})
    IN [D EXCEPT !.seen[sym] = r.seen,
                 !.order[sym] = r.order,
                 !.stats.records_cleaned = @ + Cardinality(r.removed)]

\* _update_insertion_order
UpdateInsertionOrder(order, id, t) ==
    LET Other(e) == e.id # id
    IN Append(Filter(order, Other), [id |-> id, ts |-> t])

\* is_unique: the sweep that a call runs first when one is due
AfterSweep(D, t) ==
    IF t - D.last_cleanup > CleanupInterval THEN CleanupOldRecords(D, t) ELSE D

\* is_unique: the value returned
IsUniqueResult(D, sym, id, t) ==
    LET S == AfterSweep(D, t)
    IN IF S.seen[sym][id] # None
       THEN ~(t - S.seen[sym][id] < WindowSeconds)
       ELSE TRUE

\* is_unique: the state it leaves
IsUniqueState(D, sym, id, t) ==
    LET S == [AfterSweep(D, t) EXCEPT !.stats.total_checks = @ + 1]
    IN IF S.seen[sym][id] # None
       THEN IF t - S.seen[sym][id] < WindowSeconds
            THEN [S EXCEPT !.stats.duplicates_found = @ + 1]
            ELSE [S EXCEPT !.seen[sym][id] = t,
                           !.order[sym] = UpdateInsertionOrder(@, id, t),
                           !.stats.unique_records = @ + 1]
       ELSE LET N == [S EXCEPT !.seen[sym][id] = t,
                               !.order[sym] = Append(@, [id |-> id, ts |-> t])]
                T == IF SeenCount(N.seen[sym]) > MaxPerSymbol
                     THEN TrimSymbolRecords(N, sym) ELSE N
            IN [T EXCEPT !.stats.unique_records = @ + 1]

\* the ids whose entry this call's trim removed
TrimmedBy(D, sym, id, t) ==
    LET S == AfterSweep(D, t)
    IN IF S.seen[sym][id] = None
       THEN {x \in RecordIds : /\ x # id
                               /\ S.seen[sym][x] # None
                               /\ IsUniqueState(D, sym, id, t).seen[sym][x] = None}
       ELSE {}

InitDedup ==
    /\ dd = NewDeduplicator
    /\ dd_now = 0
    /\ dd_call = [kind |-> "none"]
    /\ dd_lastTrue = [sym \in Symbols |-> [id \in RecordIds |-> None]]
    /\ dd_trimmed = [sym \in Symbols |-> [id \in RecordIds |-> FALSE]]

\* RecordDeduplicator.is_unique(record_id, timestamp, symbol)
IsUnique(sym, id) ==
    /\ dd.stats.total_checks < MaxChecks
    /\ LET result == IsUniqueResult(dd, sym, id, dd_now)
           gone == TrimmedBy(dd, sym, id, dd_now)
       IN /\ dd' = IsUniqueState(dd, sym, id, dd_now)
          /\ dd_call' = [kind |-> "is_unique", symbol |-> sym, id |-> id,
                         result |-> result,
                         swept |-> dd_now - dd.last_cleanup > CleanupInterval,
                         previous |-> dd_lastTrue[sym][id],
                         trimmed |-> dd_trimmed[sym][id]]
          /\ dd_lastTrue' = IF result THEN [dd_lastTrue EXCEPT ![sym][id] = dd_now]
                            ELSE dd_lastTrue
          /\ dd_trimmed' = [dd_trimmed EXCEPT
                              ![sym] = [x \in RecordIds |->
                                          IF x \in gone THEN TRUE
                                          ELSE IF x = id /\ result THEN FALSE
                                          ELSE @[x]]]
    /\ UNCHANGED dd_now

DdTick ==
    /\ dd_now < MaxDdTime
    /\ dd_now' = dd_now + 1
    /\ UNCHANGED <<dd, dd_call, dd_lastTrue, dd_trimmed>>

NextDedup ==
    \/ \E sym \in Symbols, id \in RecordIds : IsUnique(sym, id)
    \/ DdTick

(***************************************************************************)
(* scheduler.py: RestScheduler._collection_loop for one symbol, with       *)
(* collector.py: DataCollector.collect_agg_trades, and                     *)
(* clients/binance_rest.py: BinanceRESTClient.backfill_agg_trades          *)
(*                                                                         *)
(* Timestamps are counted in ticks.  Two checkpoints exist for the symbol: *)
(* the stored one, written by save_checkpoint at the end of a cycle, and   *)
(* the BackfillCheckpoint that collect_agg_trades creates for each cycle   *)
(* and backfill_agg_trades updates after every batch.                      *)
(***************************************************************************)
\* scheduler.overlap_minutes, in ticks
OverlapTicks == 2

\* scheduler.collection_interval, in ticks
IntervalTicks == 2

\* the longest span of one request (24 hours in the source), in ticks
BatchSpan == 2

\* scheduler cycles in one run
MaxCycles == 3

\* ticks the clock advances after the first cycle began
MaxCkAdvance == 5

FirstCycleTime == OverlapTicks + IntervalTicks

VARIABLES
    ck_now,      \* datetime.utcnow()
    ck_saved,    \* last_timestamp of the stored checkpoint, None: no checkpoint
    ck_cycle,    \* the running cycle: pc, end_ts, current_start, the
                 \* BackfillCheckpoint's last_timestamp, records_collected
    ck_cycles,   \* cycles begun
    ck_batch,    \* history: the last two values written to a BackfillCheckpoint
    ck_stored    \* history: the last two values written by save_checkpoint

ckVars == <<ck_now, ck_saved, ck_cycle, ck_cycles, ck_batch, ck_stored>>

NoWrites == [previous |-> None, last |-> None, cycle |-> 0, previous_cycle |-> 0]

Written(h, v, c) ==
    [previous |-> h.last, last |-> v, cycle |-> c, previous_cycle |-> h.cycle]

\* _collection_loop: the start of the collection window
CollectionStart(saved, end_time) ==
    IF saved # None THEN saved - OverlapTicks ELSE end_time - IntervalTicks

\* backfill_agg_trades: the cursor after a trade with event time T
NextStart(current_start, T) == Max(current_start, T + 1)

InitCheckpoint ==
    /\ ck_now = FirstCycleTime
    /\ ck_saved = None
    /\ ck_cycle = [pc |-> "wait", until |-> FirstCycleTime]
    /\ ck_cycles = 0
    /\ ck_batch = NoWrites
    /\ ck_stored = NoWrites

\* _collection_loop: a cycle begins; collect_agg_trades creates the
\* BackfillCheckpoint at the start of the window
CycleBegins ==
    /\ ck_cycle.pc = "wait"
    /\ ck_now >= ck_cycle.until
    /\ ck_cycles < MaxCycles
    /\ ck_cycles' = ck_cycles + 1
    /\ LET start == CollectionStart(ck_saved, ck_now)
       IN ck_cycle' = [pc |-> "backfill", end_ts |-> ck_now, current_start |-> start,
                       last_timestamp |-> start, records_collected |-> 0]
    /\ UNCHANGED <<ck_now, ck_saved, ck_batch, ck_stored>>

\* backfill_agg_trades: one request that returns trades, the latest of them
\* at time T; the checkpoint is updated after the batch
BatchWithTrades ==
    /\ ck_cycle.pc = "backfill"
    /\ ck_cycle.current_start < ck_cycle.end_ts
    /\ LET batch_end == Min(ck_cycle.current_start + BatchSpan, ck_cycle.end_ts)
       IN \E T \in ck_cycle.current_start..batch_end :
            LET next == NextStart(ck_cycle.current_start, T)
            IN /\ ck_cycle' = [ck_cycle EXCEPT !.current_start = next,
                                               !.last_timestamp = next,
                                               !.records_collected = 1]
               /\ ck_batch' = Written(ck_batch, next, ck_cycles)
    /\ UNCHANGED <<ck_now, ck_saved, ck_cycles, ck_stored>>

\* backfill_agg_trades: one request that returns no trade
BatchEmpty ==
    /\ ck_cycle.pc = "backfill"
    /\ ck_cycle.current_start < ck_cycle.end_ts
    /\ LET batch_end == Min(ck_cycle.current_start + BatchSpan, ck_cycle.end_ts)
       IN ck_cycle' = [ck_cycle EXCEPT !.current_start = batch_end + 1]
    /\ UNCHANGED <<ck_now, ck_saved, ck_cycles, ck_batch, ck_stored>>

\* the backfill is over (failed: a request raised and collect_agg_trades
\* caught it); _collection_loop saves the checkpoint when records were
\* collected and sleeps until the next collection is due
CycleEnds(failed) ==
    /\ ck_cycle.pc = "backfill"
    /\ IF failed THEN ck_cycle.current_start < ck_cycle.end_ts
       ELSE ck_cycle.current_start >= ck_cycle.end_ts
    /\ IF ck_cycle.records_collected > 0
       THEN /\ ck_saved' = ck_cycle.end_ts
            /\ ck_stored' = Written(ck_stored, ck_cycle.end_ts, ck_cycles)
       ELSE UNCHANGED <<ck_saved, ck_stored>>
    /\ ck_cycle' = [pc |-> "wait", until |-> ck_now + IntervalTicks]
    /\ UNCHANGED <<ck_now, ck_cycles, ck_batch>>

CkTick ==
    /\ ck_now < FirstCycleTime + MaxCkAdvance
    /\ ck_now' = ck_now + 1
    /\ UNCHANGED <<ck_saved, ck_cycle, ck_cycles, ck_batch, ck_stored>>

NextCheckpoint ==
    \/ CycleBegins
    \/ BatchWithTrades
    \/ BatchEmpty
    \/ \E failed \in BOOLEAN : CycleEnds(failed)
    \/ CkTick

(***************************************************************************)
(* data_connector/src/db_writer.py: class DatabaseWriter                   *)
(*                                                                         *)
(* The rows are those transformer.py produces.  The table is the           *)
(* bag of stored rows; the server rejects an INSERT whose key is in the unique    *)
(* index idx_market_data_unique, and a statement whose placeholders are    *)
(* not $1..$n for the n values passed.                                     *)
(***************************************************************************)
\* trade ids 0..MaxTradeId
MaxTradeId == 1

\* event timestamps 1..MaxTimestamp
MaxTimestamp == 1

\* longest list passed to write_batch
MaxBatchLen == 2

\* write_batch calls in one run
MaxBatches == 2

\* the position of each column in field_mappings of _insert_record
AggTradeFields == {1, 2, 3, 4, 5, 6, 7, 8}

IngestTimestampField == 9

KlineFields == {1, 2, 3, 4, 7, 8, 10, 11, 12, 13, 14, 15, 16, 17}

DepthFields == {1, 2, 3, 4, 7, 8, 18, 19, 20, 21, 22, 23, 24}

\* transformer.py: the rows _transform_agg_trade, _transform_kline and
\* _transform_depth_snapshot return; trade_id = None: the row has no trade_id
Rows ==
    [symbol : {"BTCUSDT"}, timestamp : 1..MaxTimestamp, data_type : {"aggTrade"},
     trade_id : 0..MaxTradeId,
     fields : {AggTradeFields, AggTradeFields \cup {IngestTimestampField}}]
    \cup
    [symbol : {"BTCUSDT"}, timestamp : 1..MaxTimestamp, data_type : {"kline"},
     trade_id : {None}, fields : {KlineFields}]
    \cup
    [symbol : {"BTCUSDT"}, timestamp : 1..MaxTimestamp, data_type : {"depth"},
     trade_id : {None}, fields : {DepthFields}]

VARIABLES
    db_table,   \* market_data: the bag of stored rows
    db_stats,   \* DatabaseWriter.stats
    db_batch,   \* the running write_batch: records left, records_written
    db_insert   \* history: the INSERT of the step just taken

dbVars == <<db_table, db_stats, db_batch, db_insert>>

Coalesce(v, d) == IF v = None THEN d ELSE v

\* the mutation of UniqueKey: the index also covers the stored columns
UniqueKeyWithFields(row) ==
    <<row.symbol, row.timestamp, row.data_type, Coalesce(row.trade_id, 0), row.fields>>

\* idx_market_data_unique
UniqueKey(row) ==
    <<row.symbol, row.timestamp, row.data_type, Coalesce(row.trade_id, 0)>>

\* _insert_record: a present column at position i gets placeholder $i and
\* created_at gets $(number of values); the statement is well formed when
\* the placeholders are $1..$n
PlaceholdersValid(row) ==
    row.fields = 1..Cardinality(row.fields)

\* conn.execute(query, *values): "inserted", or the exception raised
Execute(table, row) ==
    IF ~PlaceholdersValid(row) THEN "PostgresError"
    ELSE IF \E stored \in BagToSet(table) : UniqueKey(stored) = UniqueKey(row)
         THEN "UniqueViolationError"
         ELSE "inserted"

InitDb ==
    /\ db_table = EmptyBag
    /\ db_stats = [records_written |-> 0, batches_written |-> 0,
                   write_errors |-> 0, duplicate_skips |-> 0]
    /\ db_batch = [pc |-> "idle", left |-> 0, records_written |-> 0]
    /\ db_insert = [kind |-> "none"]

\* write_batch(records) with n records; an empty list returns 0 at once
WriteBatchBegins(n) ==
    /\ db_batch.pc = "idle"
    /\ db_stats.batches_written < MaxBatches
    /\ db_batch' = IF n = 0 THEN db_batch
                   ELSE [pc |-> "inserting", left |-> n, records_written |-> 0]
    /\ db_insert' = [kind |-> "none"]
    /\ UNCHANGED <<db_table, db_stats>>

\* write_batch: one turn of the loop over the records
InsertRecord(row) ==
    /\ db_batch.pc = "inserting"
    /\ db_batch.left > 0
    /\ LET outcome == Execute(db_table, row)
       IN /\ db_table' = IF outcome = "inserted" THEN db_table (+) SetToBag({row})
                        ELSE db_table
          /\ db_batch' = [db_batch EXCEPT
                            !.left = @ - 1,
                            !.records_written = IF outcome = "inserted" THEN @ + 1 ELSE @]
          /\ db_stats' = CASE outcome = "UniqueViolationError" ->
                                [db_stats EXCEPT !.duplicate_skips = @ + 1]
                           [] outcome = "PostgresError" ->
                                [db_stats EXCEPT !.write_errors = @ + 1]
                           [] OTHER -> db_stats
          /\ db_insert' = [kind |-> "insert", row |-> row,
                           key_present |-> \E stored \in BagToSet(db_table) :
                               /\ stored.symbol = row.symbol
                               /\ stored.timestamp = row.timestamp
                               /\ stored.data_type = row.data_type
                               /\ Coalesce(stored.trade_id, 0) = Coalesce(row.trade_id, 0),
                           table_kept |-> db_table' = db_table,
                           skips |-> db_stats'.duplicate_skips - db_stats.duplicate_skips,
                           errors |-> db_stats'.write_errors - db_stats.write_errors]

\* write_batch: the statistics after the loop
WriteBatchEnds ==
    /\ db_batch.pc = "inserting"
    /\ db_batch.left = 0
    /\ db_stats' = [db_stats EXCEPT !.records_written = @ + db_batch.records_written,
                                    !.batches_written = @ + 1]
    /\ db_batch' = [pc |-> "idle", left |-> 0, records_written |-> 0]
    /\ db_insert' = [kind |-> "none"]
    /\ UNCHANGED db_table

NextDb ==
    \/ \E n \in 0..MaxBatchLen : WriteBatchBegins(n)
    \/ \E row \in Rows : InsertRecord(row)
    \/ WriteBatchEnds

(***************************************************************************)
(* utils/retry.py: exponential_backoff, as BinanceRESTClient._make_request *)
(* calls it around _request.                                               *)
(*                                                                         *)
(* Delays are counted in quarters of the unit of initial_delay, so that    *)
(* the jitter range delay * 0.25 is a whole number.  random.uniform picks  *)
(* any value of the range; the model picks the whole numbers of it, both   *)
(* ends included.                                                          *)
(***************************************************************************)
\* largest max_attempts a caller passes
MaxTries == 4

\* initial_delay, in units
InitialDelay == 1

\* backoff_factor
BackoffFactor == 2

\* max_delay, in units
MaxDelay == 2

VARIABLES
    rt   \* one call of exponential_backoff: its locals and its history

rtVars == <<rt>>

\* the locals at the top of exponential_backoff; outcomes lists how the
\* invocations of func ended ("ok", "fail" and "429": an exception of the
\* class in `exceptions`, "other": one outside it), slept the delays slept
NewRetry ==
    [pc |-> "new", max_attempts |-> 0, jitter |-> FALSE, attempt |-> 0, delay |-> 0,
     outcomes |-> <<>>, slept |-> <<>>, result |-> None, raised |-> None]

\* a jitter of half the delay
JitterRangeWide(delay) == delay \div 2

\* jitter_range = delay * 0.25
JitterRange(delay) == delay \div 4

\* the values actual_delay can take: delay + uniform(-range, range), or
\* delay, then min(actual_delay, max_delay)
ActualDelays(delay, jitter) ==
    {Min(delay + j, 4 * MaxDelay) :
        j \in IF jitter THEN (0 - JitterRange(delay))..JitterRange(delay) ELSE {0}}

\* a loop that never takes a failed attempt for the last one
IsLastAttemptNever(attempt, max_attempts) == FALSE

\* attempt == max_attempts - 1
IsLastAttempt(attempt, max_attempts) == attempt = max_attempts - 1

\* the loop "for attempt in range(max_attempts)" moves on after the sleep:
\* the next invocation, or the statements after the loop
AfterSleep(r) ==
    IF r.attempt + 1 < r.max_attempts
    THEN [r EXCEPT !.pc = "call", !.attempt = @ + 1, !.delay = @ * BackoffFactor]
    ELSE [r EXCEPT !.pc = "raised", !.raised = Len(r.outcomes),
                   !.delay = @ * BackoffFactor]

InitRetry == rt = NewRetry

\* exponential_backoff(func, max_attempts, ..., jitter) is called; with
\* max_attempts = 0 the loop body never runs and None is returned
BackoffStart(max_attempts, jitter) ==
    /\ rt.pc = "new"
    /\ rt' = [rt EXCEPT !.pc = IF max_attempts = 0 THEN "returned" ELSE "call",
                        !.max_attempts = max_attempts,
                        !.jitter = jitter,
                        !.delay = 4 * InitialDelay]

\* func returns a result: it is returned at once
FuncReturns ==
    /\ rt.pc = "call"
    /\ rt' = [rt EXCEPT !.pc = "returned",
                        !.outcomes = Append(@, "ok"),
                        !.result = Len(rt.outcomes) + 1]

\* _request got HTTP 429: it sleeps for Retry-After before it raises
FuncSleepsRetryAfter ==
    /\ rt.pc = "call"
    /\ rt' = [rt EXCEPT !.pc = "retry_after"]

\* func raises an exception of the class in `exceptions` (kind "fail", or
\* "429" after the Retry-After sleep): raise on the last attempt, otherwise
\* sleep for the actual delay
FuncRaises ==
    /\ rt.pc \in {"call", "retry_after"}
    /\ LET kind == IF rt.pc = "retry_after" THEN "429" ELSE "fail"
           r == [rt EXCEPT !.outcomes = Append(@, kind)]
       IN IF IsLastAttempt(rt.attempt, rt.max_attempts)
          THEN rt' = [r EXCEPT !.pc = "raised", !.raised = Len(r.outcomes)]
          ELSE \E actual \in ActualDelays(rt.delay, rt.jitter) :
                  rt' = [r EXCEPT !.pc = "sleep", !.slept = Append(@, actual)]

\* func raises an exception outside `exceptions`: it propagates
FuncRaisesOther ==
    /\ rt.pc \in {"call", "retry_after"}
    /\ rt' = [rt EXCEPT !.pc = "propagated", !.outcomes = Append(@, "other")]

\* asyncio.sleep(actual_delay) is over
BackoffSleepEnds ==
    /\ rt.pc = "sleep"
    /\ rt' = AfterSleep(rt)

NextRetry ==
    \/ \E max_attempts \in 0..MaxTries, jitter \in BOOLEAN : BackoffStart(max_attempts, jitter)
    \/ FuncReturns
    \/ FuncSleepsRetryAfter
    \/ FuncRaises
    \/ FuncRaisesOther
    \/ BackoffSleepEnds

(***************************************************************************)
(* services/ingestor/src/clients/binance_sbe.py: class BinanceSBEClient,   *)
(* the loop of start_streaming with _reconnect and connect.  Time is in    *)
(* seconds.                                                                *)
(***************************************************************************)
\* self._max_reconnect_attempts
MaxReconnectAttempts == 10

\* the cap of the delay in _reconnect
MaxReconnectDelay == 60

\* websocket messages received in one run
MaxMessages == 2

\* connections established in one run
MaxConnections == 3

\* last value of the client's clock
MaxSbeTime == 8

VARIABLES
    sbe,        \* the BinanceSBEClient: fields and the position of start_streaming
    sbe_now,    \* the clock
    sbe_failed  \* history: connect() calls that failed since the last success

sbeVars == <<sbe, sbe_now, sbe_failed>>

\* BinanceSBEClient.__init__
NewSbeClient ==
    [pc |-> "idle", websocket |-> "none", running |-> FALSE, reconnect_attempts |-> 0,
     connection_count |-> 0, messages_received |-> 0, messages_processed |-> 0,
     decode_errors |-> 0, delay |-> None, wake |-> None,
     last_frame |-> [kind |-> "none"]]

\* the frames the websocket delivers: the schemaId and version of the SBE
\* header, and whether decode_message accepts the body
Frames ==
    [schema_id : {"expected", "other"}, version : {"expected", "other"}, decodes : BOOLEAN]

\* SBEDecoder.is_valid_message (C++ extension): the frame carries the
\* expected schemaId and version
IsValidMessage(frame) == frame.schema_id = "expected" /\ frame.version = "expected"

\* _parse_message and _decode_sbe_binary: TRUE when an SBEMessage comes
\* back, FALSE when None does; no exception leaves _parse_message
ParseMessage(frame) == IsValidMessage(frame) /\ frame.decodes

\* _message_stream, one pass of "async for raw_message": count the frame,
\* parse it, call the handler and yield when a message came back; the
\* except branch that counts decode_errors runs on an exception only.
\* processed: the consumer of start_streaming, _run_sbe_streaming of
\* ingest_service.py, passes each message it is yielded to
\* _process_sbe_message, which calls the handler registered for its type
HandleFrame(c, frame) ==
    [c EXCEPT !.messages_received = @ + 1,
              !.messages_processed = IF ParseMessage(frame) THEN @ + 1 ELSE @,
              !.last_frame = [kind |-> "frame", frame |-> frame,
                              yielded |-> ParseMessage(frame),
                              handled |-> ParseMessage(frame),
                              processed |-> ParseMessage(frame),
                              decode_errors_before |-> c.decode_errors]]

\* delay = min(2 ** self._reconnect_attempts, 60)
ReconnectDelay(attempts) == Min(Pow(2, attempts), MaxReconnectDelay)

\* start_streaming, the top of the while loop up to the next await: with no
\* open websocket _reconnect runs, which gives up at the attempt limit or
\* counts the attempt and sleeps; with an open one the messages are read
LoopTop(c, t) ==
    IF ~c.running
    THEN [c EXCEPT !.pc = "stopped"]
    ELSE IF c.websocket = "open"
    THEN [c EXCEPT !.pc = "streaming"]
    ELSE IF c.reconnect_attempts >= MaxReconnectAttempts
    THEN [c EXCEPT !.pc = "stopped"]
    ELSE [c EXCEPT !.pc = "sleep",
                   !.reconnect_attempts = @ + 1,
                   !.delay = ReconnectDelay(c.reconnect_attempts + 1),
                   !.wake = t + ReconnectDelay(c.reconnect_attempts + 1)]

InitSbe ==
    /\ sbe = NewSbeClient
    /\ sbe_now = 0
    /\ sbe_failed = 0

\* start_streaming is iterated for the first time
StartStreaming ==
    /\ sbe.pc = "idle"
    /\ sbe' = LoopTop([sbe EXCEPT !.running = TRUE], sbe_now)
    /\ UNCHANGED <<sbe_now, sbe_failed>>

\* _reconnect: the sleep is over, connect() is called
ReconnectSleepEnds ==
    /\ sbe.pc = "sleep"
    /\ sbe_now = sbe.wake
    /\ sbe' = [sbe EXCEPT !.pc = "connecting"]
    /\ UNCHANGED <<sbe_now, sbe_failed>>

\* connect(): websockets.connect returned; _reconnect returns True and
\* start_streaming reads the messages
ConnectSucceeds ==
    /\ sbe.pc = "connecting"
    /\ sbe.connection_count < MaxConnections
    /\ sbe' = [sbe EXCEPT !.pc = "streaming",
                          !.websocket = "open",
                          !.connection_count = @ + 1,
                          !.reconnect_attempts = 0]
    /\ sbe_failed' = 0
    /\ UNCHANGED sbe_now

\* connect(): websockets.connect raised, connect returns False, so does
\* _reconnect, and start_streaming breaks out of its loop
ConnectFails ==
    /\ sbe.pc = "connecting"
    /\ sbe' = [sbe EXCEPT !.pc = "stopped"]
    /\ sbe_failed' = sbe_failed + 1
    /\ UNCHANGED sbe_now

\* a frame arrives on the websocket
MessageArrives(frame) ==
    /\ sbe.pc = "streaming"
    /\ sbe.messages_received < MaxMessages
    /\ sbe' = HandleFrame(sbe, frame)
    /\ UNCHANGED <<sbe_now, sbe_failed>>

\* the connection is lost.  closed = TRUE: ConnectionClosed, _message_stream
\* ends and the websocket is closed; FALSE: another exception, which
\* _handle_connection_error answers by dropping the websocket.  Either way
\* the while loop starts over
ConnectionLost(closed) ==
    /\ sbe.pc = "streaming"
    /\ sbe' = LoopTop([sbe EXCEPT !.websocket = IF closed THEN "closed" ELSE "none"], sbe_now)
    /\ UNCHANGED <<sbe_now, sbe_failed>>

\* time passes while the client sleeps, connects or waits for a message
SbeTick ==
    /\ sbe_now < MaxSbeTime
    /\ sbe.pc \in {"sleep", "connecting", "streaming"}
    /\ sbe.pc = "sleep" => sbe_now < sbe.wake
    /\ sbe_now' = sbe_now + 1
    /\ UNCHANGED <<sbe, sbe_failed>>

NextSbe ==
    \/ StartStreaming
    \/ ReconnectSleepEnds
    \/ ConnectSucceeds
    \/ ConnectFails
    \/ \E frame \in Frames : MessageArrives(frame)
    \/ \E closed \in BOOLEAN : ConnectionLost(closed)
    \/ SbeTick

(***************************************************************************)
(* The stream aggregator                                                   *)
(* (src/bitcoin_datapipeline/services/aggregator/src/stream_aggregator.py) *)
(* with its hot-store writer (redis_writer.py).  Three coroutines share    *)
(* the aggregator on one event loop: start() feeds consumed messages into  *)
(* the per-(symbol, message type) buffers, the aggregation loop drains the *)
(* buffers that are due, and stop() flushes every buffer and closes the    *)
(* hot store.  A coroutine runs without interruption from one suspension   *)
(* to the next; the suspensions are the sleep of the loop and the two      *)
(* store operations of write_features.  A message is its sequence number   *)
(* in arrival order, a feature record is the number of its window.         *)
(***************************************************************************)
AggSymbols == {"BTC", "ETH"}

AggTypes == {"trade", "bestBidAsk"}

\* buffer_key = f"{symbol}_{message_type}"
AggKeys == AggSymbols \X AggTypes

MinMessages == 2

MaxIntervalSeconds == 2

CheckIntervalSeconds == 1

\* asyncio.sleep(5) after an error in the aggregation loop
ErrorSleepSeconds == 5

\* deque(maxlen=1000), scaled
BufferCapacity == 2

TtlSeconds == 3

MaxAggMessages == 3

MaxAggFaults == 1

MaxAggTime == 3

VARIABLES agg, agg_now

aggVars == <<agg, agg_now>>

NoWrite == [pc |-> "none"]

NoValue == [value |-> None, ttl |-> None]

\* StreamAggregator.__init__ with its KinesisConsumer, FeatureBuilder and
\* RedisWriter.  keys is the insertion order of the _message_buffers dict;
\* last is _last_aggregation_time (None: no entry yet); client is
\* RedisWriter.redis_client (FALSE: None); store and latest are the hot
\* store's features:<symbol>:<timestamp> and features:<symbol>:latest keys.
\* History: windows (every drained window), written (windows whose
\* write_features returned True), counted (messages whose loss raised an
\* error counter and a log line), held (messages buffered when stop() was
\* called), recent (timestamp of the last features:<symbol>:<timestamp> key
\* written), faults (store operations that failed).
NewAggregator ==
    [running |-> FALSE,
     keys |-> <<>>,
     buffers |-> [k \in AggKeys |-> <<>>],
     last |-> [k \in AggKeys |-> None],
     nextId |-> 1,
     client |-> FALSE,
     store |-> [k \in AggSymbols \X (0..MaxAggTime) |-> NoValue],
     latest |-> [s \in AggSymbols |-> NoValue],
     main |-> "new",
     loop |-> [pc |-> "new", wake |-> 0, cur |-> 0, i |-> 0, size |-> 0,
               due |-> {}, done |-> {}, raised |-> FALSE, w |-> NoWrite],
     stop |-> [pc |-> "idle", i |-> 0, size |-> 0, w |-> NoWrite],
     windows |-> <<>>,
     written |-> {},
     counted |-> {},
     held |-> {},
     recent |-> [s \in AggSymbols |-> None],
     faults |-> 0]

\* deque.append on a deque with maxlen: a full deque discards its oldest item
DequeAppend(buffer, x) ==
    IF Len(buffer) >= BufferCapacity THEN Append(Tail(buffer), x) ELSE Append(buffer, x)

\* _process_message for a message with data and a symbol
ProcessMessage(a, key) ==
    [a EXCEPT !.keys = IF key \in Range(@) THEN @ ELSE Append(@, key),
              !.buffers[key] = DequeAppend(@, a.nextId),
              !.nextId = @ + 1]

Buffered(a) == UNION {Range(a.buffers[k]) : k \in AggKeys}

\* a drain that leaves the messages in the buffer
ClearKeeps(buffer) == buffer

\* buffer.clear()
Clear(buffer) == <<>>

\* FeatureBuilder.build_features: TRUE when it returns a feature record.
\* Trades with a price and a quantity give one; _build_orderbook_features
\* reads latest_bid_size, a name it never binds, so a bestBidAsk window
\* raises NameError, which build_features logs and counts, returning None.
BuildFeatures(message_type, messages) == messages # <<>> /\ message_type = "trade"

\* lines 199-204 of _aggregate_buffer, after write_features has returned
WriteReturned(a, win, ret) ==
    IF ret = "true"
    THEN [a EXCEPT !.written = @ \cup {win}]
    ELSE [a EXCEPT !.counted = @ \cup Range(a.windows[win].msgs)]

\* _aggregate_buffer on a non-empty buffer, up to its first suspension: the
\* aggregator and the store operation it waits for (NoWrite: it returned)
AggregateBuffer(a, key, by, now) ==
    LET msgs == a.buffers[key]
        a1 == [a EXCEPT !.buffers[key] = Clear(@),
                        !.windows = Append(@, [key |-> key, msgs |-> msgs, by |-> by])]
        win == Len(a1.windows)
    IN  IF ~BuildFeatures(key[2], msgs)
        THEN [a |-> [a1 EXCEPT !.counted = @ \cup Range(msgs)], w |-> NoWrite]
        ELSE IF ~a1.client
        THEN [a |-> WriteReturned(a1, win, "false"), w |-> NoWrite]
        ELSE [a |-> a1, w |-> [pc |-> "setex1", win |-> win, symbol |-> key[1], ts |-> now]]

\* write_features from the end of one store operation to the next suspension
\* or to its return value; ok: the operation raised nothing
SetexEnds(a, w, ok) ==
    IF w.pc = "setex1"
    THEN IF ~ok
         THEN [a |-> a, w |-> NoWrite, ret |-> "false"]
         ELSE LET a1 == [a EXCEPT !.store[<<w.symbol, w.ts>>] = [value |-> w.win, ttl |-> TtlSeconds],
                                  !.recent[w.symbol] = w.ts]
              IN  IF ~a.client
                  THEN [a |-> a1, w |-> NoWrite, ret |-> "false"]
                  ELSE [a |-> a1, w |-> [w EXCEPT !.pc = "setex2"], ret |-> "pending"]
    ELSE IF ~ok
         THEN [a |-> a, w |-> NoWrite, ret |-> "false"]
         ELSE [a |-> [a EXCEPT !.latest[w.symbol] = [value |-> w.win, ttl |-> TtlSeconds]],
               w |-> NoWrite, ret |-> "true"]

ShouldAggregate(buffer, time_since_last) ==
    Len(buffer) >= MinMessages \/ time_since_last >= MaxIntervalSeconds

\* _last_aggregation_time[key], a defaultdict whose default is time.time()
LastAggregationTime(a, key, now) == IF a.last[key] = None THEN now ELSE a.last[key]

\* the buffers a pass that wakes now has to aggregate
Due(a, now) ==
    {k \in Range(a.keys) :
        /\ a.buffers[k] # <<>>
        /\ ShouldAggregate(a.buffers[k], now - LastAggregationTime(a, k, now))}

\* line 164 and the step to the next dict item
Aggregated(a, key) ==
    [a EXCEPT !.last[key] = a.loop.cur,
              !.loop.done = @ \cup {key},
              !.loop.i = @ + 1,
              !.loop.w = NoWrite]

\* one pass of _aggregation_loop from the dict item loop.i on, up to the next
\* suspension.  A dict whose size changed since the iteration began raises
\* RuntimeError in the for statement; the loop logs it and sleeps.
RECURSIVE AggregationLoop(_, _)
AggregationLoop(a, now) ==
    IF Len(a.keys) # a.loop.size
    THEN [a EXCEPT !.loop.pc = "sleeping", !.loop.wake = now + ErrorSleepSeconds,
                   !.loop.raised = TRUE]
    ELSE IF a.loop.i > Len(a.keys)
    THEN [a EXCEPT !.loop.pc = "sleeping", !.loop.wake = now + CheckIntervalSeconds]
    ELSE LET key == a.keys[a.loop.i]
             buffer == a.buffers[key]
             last_agg_time == LastAggregationTime(a, key, now)
             a1 == [a EXCEPT !.last[key] = last_agg_time]
         IN  IF buffer = <<>>
             THEN AggregationLoop([a EXCEPT !.loop.i = @ + 1], now)
             ELSE IF ~ShouldAggregate(buffer, a.loop.cur - last_agg_time)
             THEN AggregationLoop([a1 EXCEPT !.loop.i = @ + 1], now)
             ELSE LET r == AggregateBuffer(a1, key, "loop", now)
                  IN  IF r.w = NoWrite
                      THEN AggregationLoop(Aggregated(r.a, key), now)
                      ELSE [r.a EXCEPT !.loop.pc = "writing", !.loop.w = r.w]

\* stop() after _flush_all_features: the consumer is stopped and the hot
\* store closed
Stopped(a) == [a EXCEPT !.client = FALSE, !.stop.pc = "stopped", !.stop.w = NoWrite]

\* _flush_all_features from the dict item stop.i on, up to the next suspension
RECURSIVE FlushAllFeatures(_, _)
FlushAllFeatures(a, now) ==
    IF Len(a.keys) # a.stop.size
    THEN [a EXCEPT !.stop.pc = "raised"]
    ELSE IF a.stop.i > Len(a.keys)
    THEN Stopped(a)
    ELSE LET key == a.keys[a.stop.i]
         IN  IF a.buffers[key] = <<>>
             THEN FlushAllFeatures([a EXCEPT !.stop.i = @ + 1], now)
             ELSE LET r == AggregateBuffer(a, key, "flush", now)
                  IN  IF r.w = NoWrite
                      THEN FlushAllFeatures([r.a EXCEPT !.stop.i = @ + 1], now)
                      ELSE [r.a EXCEPT !.stop.pc = "writing", !.stop.w = r.w]

\* _cleanup at the end of start(), after the aggregation task was cancelled:
\* the task ends at the suspension it waits in
Cleanup(a) ==
    [a EXCEPT !.main = "done",
              !.loop.pc = IF @ \in {"sleeping", "writing"} THEN "cancelled" ELSE @,
              !.loop.w = NoWrite,
              !.client = FALSE]

InitAggregator ==
    /\ agg = NewAggregator
    /\ agg_now = 0

\* start(): the hot store is connected, the aggregation task is created and
\* the consumption of messages begins
AggStart ==
    /\ agg.main = "new"
    /\ agg' = [agg EXCEPT !.running = TRUE, !.client = TRUE, !.main = "consuming",
                          !.loop.pc = "sleeping", !.loop.wake = agg_now]
    /\ UNCHANGED agg_now

\* the consumer yields a message for key while the aggregator runs
AggMessageArrives(key) ==
    /\ agg.main = "consuming"
    /\ agg.running
    /\ agg.nextId <= MaxAggMessages
    /\ agg' = ProcessMessage(agg, key)
    /\ UNCHANGED agg_now

\* the consumer yields a message, or ends, after stop() cleared _running:
\* start() leaves its loop, cancels the aggregation task and cleans up
MainExits ==
    /\ agg.main = "consuming"
    /\ ~agg.running
    /\ agg' = Cleanup(agg)
    /\ UNCHANGED agg_now

\* the aggregation task runs after its sleep
LoopWakes ==
    /\ agg.loop.pc = "sleeping"
    /\ agg_now >= agg.loop.wake
    /\ agg' = IF ~agg.running
              THEN [agg EXCEPT !.loop.pc = "done"]
              ELSE AggregationLoop([agg EXCEPT !.loop.cur = agg_now,
                                               !.loop.i = 1,
                                               !.loop.size = Len(agg.keys),
                                               !.loop.due = Due(agg, agg_now),
                                               !.loop.done = {},
                                               !.loop.raised = FALSE], agg_now)
    /\ UNCHANGED agg_now

\* a store operation of the aggregation task ends
LoopSetexEnds(ok) ==
    /\ agg.loop.pc = "writing"
    /\ ok \/ agg.faults < MaxAggFaults
    /\ LET r == SetexEnds([agg EXCEPT !.faults = IF ok THEN @ ELSE @ + 1], agg.loop.w, ok)
           win == agg.loop.w.win
       IN  agg' = IF r.ret = "pending"
                  THEN [r.a EXCEPT !.loop.w = r.w]
                  ELSE AggregationLoop(
                           Aggregated(WriteReturned(r.a, win, r.ret), agg.windows[win].key),
                           agg_now)
    /\ UNCHANGED agg_now

\* stop() is called
StopCalled ==
    /\ agg.main = "consuming"
    /\ agg.stop.pc = "idle"
    /\ agg' = FlushAllFeatures([agg EXCEPT !.running = FALSE,
                                           !.held = Buffered(agg),
                                           !.stop.i = 1,
                                           !.stop.size = Len(agg.keys)], agg_now)
    /\ UNCHANGED agg_now

\* a store operation of the flush ends
StopSetexEnds(ok) ==
    /\ agg.stop.pc = "writing"
    /\ ok \/ agg.faults < MaxAggFaults
    /\ LET r == SetexEnds([agg EXCEPT !.faults = IF ok THEN @ ELSE @ + 1], agg.stop.w, ok)
           win == agg.stop.w.win
       IN  agg' = IF r.ret = "pending"
                  THEN [r.a EXCEPT !.stop.w = r.w]
                  ELSE FlushAllFeatures(
                           [WriteReturned(r.a, win, r.ret) EXCEPT !.stop.i = @ + 1,
                                                                  !.stop.w = NoWrite],
                           agg_now)
    /\ UNCHANGED agg_now

\* a second passes; the aggregation task wakes when its sleep is over
AggTick ==
    /\ agg.main # "new"
    /\ agg_now < MaxAggTime
    /\ agg.loop.pc = "sleeping" => agg_now < agg.loop.wake
    /\ agg_now' = agg_now + 1
    /\ UNCHANGED agg

NextAggregator ==
    \/ AggStart
    \/ \E key \in AggKeys : AggMessageArrives(key)
    \/ MainExits
    \/ LoopWakes
    \/ \E ok \in BOOLEAN : LoopSetexEnds(ok)
    \/ StopCalled
    \/ \E ok \in BOOLEAN : StopSetexEnds(ok)
    \/ AggTick


(***************************************************************************)
(* The feature builder                                                     *)
(* (src/bitcoin_datapipeline/services/aggregator/src/feature_builder.py):  *)
(* build_features turns the drained window of one (symbol, message type)   *)
(* into a feature record.  Prices are whole numbers; quantities count      *)
(* quarters, so that a volume below 1.0 can be told from one above; a      *)
(* quotient is kept as its numerator and denominator.  Of the feature      *)
(* record the model keeps the set of its keys and the values of the        *)
(* volume features of a trade window.                                      *)
(***************************************************************************)
FbTypes == {"trade", "bestBidAsk", "depth"}

MaxPrice == 1

MaxQty == 4

MaxEventTs == 1

MaxLevels == 1

MaxWindowLen == 2

\* the float 1 of max(total_volume, 1), in quarters
One == 4

TradeMessages ==
    [price : 0..MaxPrice, qty : 0..MaxQty, is_buyer_maker : BOOLEAN, event_ts : 0..MaxEventTs]

OrderbookMessages == [bid_px : 0..MaxPrice, ask_px : 0..MaxPrice, event_ts : 0..MaxEventTs]

\* a depth message with its numbers of bid and ask levels
DepthMessages == [bids : 0..MaxLevels, asks : 0..MaxLevels, event_ts : 0..MaxEventTs]

FbMessages(message_type) ==
    CASE message_type = "trade" -> TradeMessages
      [] message_type = "bestBidAsk" -> OrderbookMessages
      [] message_type = "depth" -> DepthMessages

\* the non-empty windows of one message type
FbWindows(message_type) ==
    UNION {[1..n -> FbMessages(message_type)] : n \in 1..MaxWindowLen}

VARIABLE fb

fbVars == <<fb>>

NoFeatures == [kind |-> "none"]

\* the keys of the dict _build_trade_features returns
TradeFeatureFields ==
    {"price", "volume", "vwap", "price_change", "price_change_pct", "min_price", "max_price",
     "avg_price", "price_volatility", "trade_count", "trades_per_second", "buy_volume",
     "sell_volume", "volume_imbalance", "avg_trade_size", "time_span_seconds"}

\* the keys of the dict _build_orderbook_features is to return
OrderbookFeatureFields ==
    {"price", "bid_price", "ask_price", "spread", "spread_pct", "mid_price", "avg_bid",
     "avg_ask", "avg_spread", "avg_mid", "min_spread", "max_spread", "spread_volatility",
     "bid_size", "ask_size", "avg_bid_size", "avg_ask_size", "total_bid_size",
     "total_ask_size", "size_imbalance", "mid_change", "mid_change_pct", "update_count"}

\* the keys of the dict _build_depth_features returns
DepthFeatureFields ==
    {"price", "bid_price", "ask_price", "spread", "spread_pct", "mid_price", "bid_size",
     "ask_size", "bid_depth_5", "ask_depth_5", "depth_imbalance", "bid_weighted_price",
     "ask_weighted_price", "total_levels"}

\* the keys build_features adds to a feature record
MetadataFields == {"symbol", "timestamp", "message_count", "message_type", "feature_version"}

FeatureFields(message_type) ==
    CASE message_type = "trade" -> TradeFeatureFields
      [] message_type = "bestBidAsk" -> OrderbookFeatureFields
      [] message_type = "depth" -> DepthFeatureFields

\* sorted(messages, key=event_ts): a stable sort
RECURSIVE SortByEventTs(_)
SortByEventTs(messages) ==
    IF messages = <<>>
    THEN <<>>
    ELSE LET rest == SortByEventTs(Tail(messages))
             first == Head(messages)
             before == SelectSeq(rest, LAMBDA x : x.event_ts < first.event_ts)
             after == SelectSeq(rest, LAMBDA x : x.event_ts >= first.event_ts)
         IN  before \o <<first>> \o after

RECURSIVE SumQty(_)
SumQty(trades) == IF trades = <<>> THEN 0 ELSE Head(trades).qty + SumQty(Tail(trades))

\* _build_trade_features: trades without a positive price and quantity are
\* left out; a buyer-maker trade counts as sell volume, the others as buy
\* volume
BuildTradeFeatures(messages) ==
    LET trades == SelectSeq(messages, LAMBDA t : t.price > 0 /\ t.qty > 0)
        total_volume == SumQty(trades)
        total_buy_volume == SumQty(SelectSeq(trades, LAMBDA t : ~t.is_buyer_maker))
        total_sell_volume == SumQty(SelectSeq(trades, LAMBDA t : t.is_buyer_maker))
    IN  IF trades = <<>>
        THEN NoFeatures
        ELSE [kind |-> "features",
              fields |-> TradeFeatureFields,
              price |-> trades[Len(trades)].price,
              volume |-> total_volume,
              buy_volume |-> total_buy_volume,
              sell_volume |-> total_sell_volume,
              volume_imbalance |-> [num |-> total_buy_volume - total_sell_volume,
                                    den |-> Max(total_volume, One)],
              trade_count |-> Len(trades)]

\* _build_orderbook_features: with one usable quote the dict literal reads
\* latest_bid_size, which is bound nowhere, and NameError is raised
BuildOrderbookFeatures(messages) ==
    LET quotes == SelectSeq(messages, LAMBDA u : u.bid_px > 0 /\ u.ask_px > 0)
    IN  IF quotes = <<>> THEN NoFeatures ELSE [kind |-> "raised"]

\* _build_depth_features: the latest snapshot of the window
BuildDepthFeatures(messages) ==
    LET latest_depth == messages[Len(messages)]
    IN  IF latest_depth.bids = 0 \/ latest_depth.asks = 0
        THEN NoFeatures
        ELSE [kind |-> "features", fields |-> DepthFeatureFields,
              total_levels |-> latest_depth.bids + latest_depth.asks]

\* build_features: the feature record (NoFeatures: None) and whether a
\* computation error was counted
BuildFeaturesOf(message_type, messages) ==
    LET sorted_messages == SortByEventTs(messages)
        features == CASE message_type = "trade" -> BuildTradeFeatures(sorted_messages)
                      [] message_type = "bestBidAsk" -> BuildOrderbookFeatures(sorted_messages)
                      [] message_type = "depth" -> BuildDepthFeatures(sorted_messages)
    IN  IF features.kind = "raised"
        THEN [features |-> NoFeatures, error |-> TRUE]
        ELSE IF features.kind = "none"
        THEN [features |-> NoFeatures, error |-> FALSE]
        ELSE [features |-> [features EXCEPT !.fields = @ \cup MetadataFields], error |-> FALSE]

InitFeatureBuilder == fb = [pc |-> "idle"]

\* build_features is called with a drained window
BuildFeaturesCalled(message_type, messages) ==
    /\ fb.pc = "idle"
    /\ LET r == BuildFeaturesOf(message_type, messages)
       IN  fb' = [pc |-> "built", message_type |-> message_type, messages |-> messages,
                  features |-> r.features, error |-> r.error]

\* the aggregator has taken the result
FeaturesTaken ==
    /\ fb.pc = "built"
    /\ fb' = [pc |-> "idle"]

NextFeatureBuilder ==
    \/ \E message_type \in FbTypes : \E messages \in FbWindows(message_type) :
           BuildFeaturesCalled(message_type, messages)
    \/ FeaturesTaken


(***************************************************************************)
(* The bus consumer of the aggregator                                      *)
(* (src/bitcoin_datapipeline/services/aggregator/src/kinesis_consumer.py), *)
(* for one shard.  The shard is the sequence of its records, a record's    *)
(* sequence number its place in it; a record is TRUE when its payload      *)
(* decodes as JSON.  A shard iterator is the sequence number it reads      *)
(* next; the bus lets an iterator expire.                                  *)
(***************************************************************************)
MaxShardRecords == 3

\* config.kinesis.max_records_per_request
MaxRecordsPerRequest == 2

VARIABLES kc, shard

kcVars == <<kc, shard>>

\* KinesisConsumer.__init__: no shard iterator, no remembered sequence
\* number.  History: emitted (the sequence numbers of the records handed to
\* consume_messages), refresh (the last re-opening of the iterator).
NewConsumer ==
    [pc |-> "new",
     iterator |-> [pos |-> None, expired |-> FALSE],
     last_seq |-> None,
     emitted |-> <<>>,
     refresh |-> [kind |-> "none"]]

\* a refresh that always starts from the tip of the shard
RefreshIteratorTypeLatest(last_seq) == "LATEST"

\* the ShardIteratorType _refresh_shard_iterator asks for
RefreshIteratorType(last_seq) ==
    IF last_seq # None THEN "AFTER_SEQUENCE_NUMBER" ELSE "LATEST"

\* get_shard_iterator: the sequence number the new iterator reads first
OpenIterator(type, sequence_number, records) ==
    IF type = "AFTER_SEQUENCE_NUMBER" THEN sequence_number + 1 ELSE Len(records) + 1

\* the for loop of _get_records_from_shard over the records first..last: a
\* record that decodes is emitted and its sequence number remembered
RECURSIVE ProcessRecords(_, _, _, _)
ProcessRecords(c, records, first, last) ==
    IF first > last
    THEN c
    ELSE ProcessRecords(
             IF records[first]
             THEN [c EXCEPT !.emitted = Append(@, first), !.last_seq = first]
             ELSE c,
             records, first + 1, last)

\* _refresh_shard_iterator when get_shard_iterator succeeds
RefreshShardIterator(c, records) ==
    LET type == RefreshIteratorType(c.last_seq)
        pos == OpenIterator(type, c.last_seq, records)
    IN  [c EXCEPT !.iterator = [pos |-> pos, expired |-> FALSE],
                  !.refresh = [kind |-> "refresh", type |-> type, pos |-> pos,
                               last_seq |-> c.last_seq,
                               last_emitted |-> IF c.emitted = <<>> THEN None
                                                ELSE c.emitted[Len(c.emitted)]]]

\* _get_records_from_shard and the emission of its records
GetRecordsFromShard(c, records) ==
    IF c.iterator.expired
    THEN RefreshShardIterator(c, records)
    ELSE LET last == Min(c.iterator.pos + MaxRecordsPerRequest - 1, Len(records))
         IN  ProcessRecords([c EXCEPT !.iterator.pos = last + 1], records, c.iterator.pos, last)

InitConsumer ==
    /\ kc = NewConsumer
    /\ shard = <<>>

\* start(): an iterator of type LATEST is opened for the shard
ConsumerStart ==
    /\ kc.pc = "new"
    /\ kc' = [kc EXCEPT !.pc = "running",
                        !.iterator = [pos |-> OpenIterator("LATEST", None, shard),
                                      expired |-> FALSE]]
    /\ UNCHANGED shard

\* a producer puts a record into the shard
ShardPut(decodes) ==
    /\ Len(shard) < MaxShardRecords
    /\ shard' = Append(shard, decodes)
    /\ UNCHANGED kc

\* the bus lets the consumer's iterator expire
IteratorExpires ==
    /\ kc.pc = "running"
    /\ ~kc.iterator.expired
    /\ kc' = [kc EXCEPT !.iterator.expired = TRUE]
    /\ UNCHANGED shard

\* one round of consume_messages for the shard
ConsumeRound ==
    /\ kc.pc = "running"
    /\ kc' = GetRecordsFromShard(kc, shard)
    /\ UNCHANGED shard

\* get_records fails with ExpiredIteratorException and get_shard_iterator
\* fails too: the shard's iterator is removed
RefreshFails ==
    /\ kc.pc = "running"
    /\ kc.iterator.expired
    /\ kc' = [kc EXCEPT !.pc = "removed", !.iterator = [pos |-> None, expired |-> FALSE]]
    /\ UNCHANGED shard

NextConsumer ==
    \/ ConsumerStart
    \/ \E decodes \in BOOLEAN : ShardPut(decodes)
    \/ IteratorExpires
    \/ ConsumeRound
    \/ RefreshFails


(***************************************************************************)
(* The ETL of partition objects                                            *)
(* (src/services/data-connector/src/s3_reader.py and                       *)
(* src/bitcoin_datapipeline/services/data_connector/src/                   *)
(* etl_orchestrator.py).  A partition object is a key of the object store  *)
(* with the time it was last modified; objects are put once and kept.  One *)
(* ETL loop runs cycle after cycle: it discovers the objects to process,   *)
(* then reads, transforms and writes them one by one, and any of the three *)
(* may fail.                                                               *)
(***************************************************************************)
NumObjects == 2

\* the 24 hours discover_new_files looks back without a last processed time
LookbackTicks == 2

MaxEtlTime == 3

Objects == 1..NumObjects

Outcomes == {"read_fails", "no_data", "transform_fails", "write_fails", "written"}

VARIABLES etl, s3, etl_now

etlVars == <<etl, s3, etl_now>>

\* ETLOrchestrator.__init__ with its S3Reader.  History: reads, transforms
\* and writes count the calls of read_file, transform and write_batch for
\* each object; failed holds the objects whose read, transform or write
\* raised and which were not written since.
NewEtl ==
    [pc |-> "idle",
     processed_files |-> {},
     last_processed_time |-> None,
     files_to_process |-> <<>>,
     latest_file_time |-> None,
     reads |-> [k \in Objects |-> 0],
     transforms |-> [k \in Objects |-> 0],
     writes |-> [k \in Objects |-> 0],
     failed |-> {}]

\* a discovery that skips nothing
ShouldProcessAlways(key, last_modified, processed_files, last_processed_time) == TRUE

\* _process_s3_object for a data file: skipped if already processed or too old
ShouldProcess(key, last_modified, processed_files, last_processed_time) ==
    /\ key \notin processed_files
    /\ ~(last_modified <= last_processed_time)

\* files_to_process.sort(key=last_modified) of the listing, which is in key order
RECURSIVE SortByLastModified(_, _)
SortByLastModified(keys, store) ==
    IF keys = {}
    THEN <<>>
    ELSE LET first == CHOOSE k \in keys :
                          \A o \in keys : \/ store[k] < store[o]
                                          \/ (store[k] = store[o] /\ k <= o)
         IN  <<first>> \o SortByLastModified(keys \ {first}, store)

\* discover_new_files
DiscoverNewFiles(e, store, now) ==
    LET last_processed_time == IF e.last_processed_time = None
                               THEN now - LookbackTicks
                               ELSE e.last_processed_time
    IN  SortByLastModified(
            {k \in Objects : /\ store[k] # None
                             /\ ShouldProcess(k, store[k], e.processed_files,
                                              last_processed_time)},
            store)

\* one turn of the loop of _process_file_batch: read_file marks the object
\* as processed when it has read it; every failure is logged and counted
ProcessFileBatch(e, key, outcome) ==
    LET read == outcome # "read_fails"
        transformed == outcome \in {"transform_fails", "write_fails", "written"}
        wrote == outcome \in {"write_fails", "written"}
    IN  [e EXCEPT !.reads[key] = @ + 1,
                  !.processed_files = IF read THEN @ \cup {key} ELSE @,
                  !.transforms[key] = IF transformed THEN @ + 1 ELSE @,
                  !.writes[key] = IF wrote THEN @ + 1 ELSE @,
                  !.failed = IF outcome \in {"read_fails", "transform_fails", "write_fails"}
                             THEN @ \cup {key}
                             ELSE @ \ {key},
                  !.files_to_process = Tail(@)]

\* the end of _run_etl_cycle
EtlCycleEnds(e) ==
    [e EXCEPT !.pc = "idle", !.last_processed_time = e.latest_file_time]

InitEtl ==
    /\ etl = NewEtl
    /\ s3 = [k \in Objects |-> None]
    /\ etl_now = 0

\* the landing component puts a partition object
ObjectPut(key) ==
    /\ s3[key] = None
    /\ s3' = [s3 EXCEPT ![key] = etl_now]
    /\ UNCHANGED <<etl, etl_now>>

\* _run_etl_cycle up to the first file
CycleStarts ==
    /\ etl.pc = "idle"
    /\ LET files == DiscoverNewFiles(etl, s3, etl_now)
       IN  /\ files # <<>>
           /\ etl' = [etl EXCEPT !.pc = "batch",
                                 !.files_to_process = files,
                                 !.latest_file_time = s3[files[Len(files)]]]
    /\ UNCHANGED <<s3, etl_now>>

\* the next file of the cycle is processed; after the last one the cycle ends
ProcessFile(outcome) ==
    /\ etl.pc = "batch"
    /\ LET e == ProcessFileBatch(etl, Head(etl.files_to_process), outcome)
       IN  etl' = IF e.files_to_process = <<>> THEN EtlCycleEnds(e) ELSE e
    /\ UNCHANGED <<s3, etl_now>>

EtlTick ==
    /\ etl_now < MaxEtlTime
    /\ etl_now' = etl_now + 1
    /\ UNCHANGED <<etl, s3>>

NextEtl ==
    \/ \E key \in Objects : ObjectPut(key)
    \/ CycleStarts
    \/ \E outcome \in Outcomes : ProcessFile(outcome)
    \/ EtlTick


(***************************************************************************)
(* The partition writer: writers/s3_writer.py, with the reading of its     *)
(* objects by the ETL (s3_reader.py, transformer.py, db_writer.py).        *)
(* A string is the sequence of the parts that its underscores separate:    *)
(* "klines_1m" is <<"klines", "1m">>, "" is <<>>.  An object key is the    *)
(* record of what _build_s3_key puts into the path: the symbol, the data   *)
(* type and the time to the second (year to hour follow from the second).  *)
(***************************************************************************)

\* datetime.utcnow(), in whole seconds, runs from 0 to MaxWriterTime
MaxWriterTime == 1

\* longest list passed to one write call
MaxWriteLen == 2

\* calls of the writer in one run
MaxWriterCalls == 3

\* batch_size
WriterBatchSize == 2

\* buffer_timeout_seconds
BufferTimeoutSeconds == 1

\* int(timestamp.timestamp() * 1000)
MillisPerSecond == 1000

WriterSymbol == "BTCUSDT"

KlineIntervals == {"1m", "1h"}

\* the records the writer is given, one shape for the four kinds: ts is
\* event_ts of a trade, kline[0] of a kline; book: bids and asks are non-empty
WriterRecords ==
    [kind : {"aggTrade", "trade"}, symbol : {WriterSymbol}, ts : 1..MaxTimestamp,
     trade_id : 0..MaxTradeId, interval : {""}, book : {TRUE}]
    \cup
    [kind : {"kline"}, symbol : {WriterSymbol}, ts : 1..MaxTimestamp,
     trade_id : {None}, interval : {""}, book : {TRUE}]
    \cup
    [kind : {"depth"}, symbol : {WriterSymbol}, ts : {None},
     trade_id : {None}, interval : {""}, book : BOOLEAN]

OfKind(kind) == {r \in WriterRecords : r.kind = kind}

ListsOf(S) == UNION {[1..n -> S] : n \in 1..MaxWriteLen}

\* ingest_service.py: the buffer name f"{symbol}_aggTrades"
BufferNames == {<<WriterSymbol, "aggTrades">>}

VARIABLES
    pw,       \* the S3BronzeWriter: the ids its deduplicator holds, _buffers,
              \* _buffer_timestamps; history: calls, the keys of put_object
              \* in order, the last operation
    bucket,   \* the objects of the bucket: key and records
    pw_now    \* datetime.utcnow(), in seconds

pwVars == <<pw, bucket, pw_now>>

InitWriter ==
    /\ pw = [seen |-> {},
             buffers |-> [b \in BufferNames |-> <<>>],
             buffer_timestamps |-> [b \in BufferNames |-> None],
             calls |-> 0,
             puts |-> <<>>,
             last |-> [kind |-> "none"]]
    /\ bucket = {}
    /\ pw_now = 0

\* _build_s3_key
BuildS3Key(data_type, symbol, timestamp) ==
    [symbol |-> symbol, data_type |-> data_type, second |-> timestamp]

\* the id the writer passes to deduplicator.is_unique
DedupId(r) ==
    IF r.kind = "kline" THEN <<r.symbol, r.interval, r.ts>>
                        ELSE <<r.symbol, r.trade_id>>

\* the loop over is_unique, inside the deduplication window: the records that
\* pass, and the ids the deduplicator holds afterwards
RECURSIVE UniqueRecords(_, _, _)
UniqueRecords(records, seen, kept) ==
    IF records = <<>> THEN [kept |-> kept, seen |-> seen]
    ELSE LET r == Head(records)
         IN IF DedupId(r) \in seen
            THEN UniqueRecords(Tail(records), seen, kept)
            ELSE UniqueRecords(Tail(records), seen \cup {DedupId(r)}, Append(kept, r))

\* _write_jsonl_to_s3 under retry_with_backoff: ok: one of the three
\* put_object attempts succeeds; the object replaces the one under the key;
\* op: "write" for a write call, "flush" for _flush_buffer
WriteJsonlToS3(w, op, s3_key, records, ok) ==
    /\ bucket' = IF ok
                 THEN {o \in bucket : o.key # s3_key}
                      \cup {[key |-> s3_key, records |-> records]}
                 ELSE bucket
    /\ pw' = [w EXCEPT !.calls = @ + 1,
                       !.puts = IF ok THEN Append(@, s3_key) ELSE @,
                       !.last = [kind |-> op, key |-> s3_key, ok |-> ok]]

\* write_agg_trades, write_trades and write_klines after the key is built:
\* deduplicate, return when nothing is left, write
WriteUnique(data_type, records, ok) ==
    LET s3_key == BuildS3Key(data_type, WriterSymbol, pw_now)
        u == UniqueRecords(records, pw.seen, <<>>)
        w == [pw EXCEPT !.seen = u.seen]
    IN /\ pw.calls < MaxWriterCalls
       /\ IF u.kept = <<>>
          THEN /\ pw' = [w EXCEPT !.calls = @ + 1,
                                  !.last = [kind |-> "nothing"]]
               /\ bucket' = bucket
          ELSE WriteJsonlToS3(w, "write", s3_key, u.kept, ok)
       /\ UNCHANGED pw_now

\* write_agg_trades(symbol, trades)
WriteAggTrades(trades, ok) ==
    WriteUnique(<<"aggTrades">>, trades, ok)

\* write_trades(symbol, trades)
WriteTrades(trades, ok) ==
    WriteUnique(<<"trades">>, trades, ok)

\* write_klines(symbol, klines, interval); every kline has the twelve entries
WriteKlines(klines, interval, ok) ==
    LET structured_klines ==
            [i \in 1..Len(klines) |-> [klines[i] EXCEPT !.interval = interval]]
    IN WriteUnique(<<"klines", interval>>, structured_klines, ok)

\* write_depth_snapshot(symbol, depth_data)
WriteDepthSnapshot(depth, ok) ==
    LET s3_key == BuildS3Key(<<"depth", "snapshots">>, WriterSymbol, pw_now)
        structured_depth == [depth EXCEPT !.ts = pw_now * MillisPerSecond]
    IN /\ pw.calls < MaxWriterCalls
       /\ WriteJsonlToS3(pw, "write", s3_key, <<structured_depth>>, ok)
       /\ UNCHANGED pw_now

\* _flush_buffer
FlushBuffer(w, buffer_key, ok) ==
    LET records == w.buffers[buffer_key]
        symbol == buffer_key[1]
        data_type == SubSeq(buffer_key, 2, Len(buffer_key) - 1)
        s3_key == BuildS3Key(data_type, symbol, pw_now)
        f == [w EXCEPT !.buffers[buffer_key] = IF ok THEN <<>> ELSE records,
                       !.buffer_timestamps[buffer_key] = pw_now]
    IN /\ WriteJsonlToS3(f, "flush", s3_key, records, ok)
       /\ UNCHANGED pw_now

\* write_buffered(buffer_key, record)
WriteBuffered(buffer_key, record, ok) ==
    LET started == IF pw.buffer_timestamps[buffer_key] = None
                   THEN pw_now ELSE pw.buffer_timestamps[buffer_key]
        w == [pw EXCEPT !.buffers[buffer_key] = Append(@, record),
                        !.buffer_timestamps[buffer_key] = started]
        should_flush == \/ Len(w.buffers[buffer_key]) >= WriterBatchSize
                        \/ pw_now - started >= BufferTimeoutSeconds
    IN /\ pw.calls < MaxWriterCalls
       /\ IF should_flush
          THEN FlushBuffer(w, buffer_key, ok)
          ELSE /\ ok
               /\ pw' = [w EXCEPT !.calls = @ + 1,
                                  !.last = [kind |-> "buffered"]]
               /\ UNCHANGED <<bucket, pw_now>>

\* flush_all_buffers: the buffers that hold records are flushed
FlushAllBuffers(buffer_key, ok) ==
    /\ pw.calls < MaxWriterCalls
    /\ pw.buffers[buffer_key] # <<>>
    /\ FlushBuffer(pw, buffer_key, ok)

\* the clock of the writer moves to the next second
WriterTick ==
    /\ pw_now < MaxWriterTime
    /\ pw_now' = pw_now + 1
    /\ UNCHANGED <<pw, bucket>>

\* s3_reader.py _extract_metadata_from_key: parts[1] and parts[2] of the path
ExtractMetadataFromKey(key) ==
    [symbol |-> key.symbol, data_type |-> key.data_type]

\* transformer.py _transform_agg_trade: the row, as a set of at most one
TransformAggTrade(record) ==
    {[symbol |-> record.symbol, timestamp |-> record.ts, data_type |-> "aggTrade",
     trade_id |-> record.trade_id,
     fields |-> AggTradeFields]}

\* transformer.py _transform_kline
TransformKline(record) ==
    {[symbol |-> record.symbol, timestamp |-> record.ts, data_type |-> "kline",
     trade_id |-> None, fields |-> KlineFields]}

\* transformer.py _transform_depth_snapshot; no row: bids or asks are empty
TransformDepthSnapshot(record) ==
    IF ~record.book THEN {}
    ELSE {[symbol |-> record.symbol, timestamp |-> record.ts, data_type |-> "depth",
           trade_id |-> None, fields |-> DepthFields]}

\* transformer.py transform(raw_records, file_info): the rows it returns
Transform(raw_records, file_info) ==
    LET data_type == file_info.data_type
        Transformed(record) ==
            IF data_type = <<"aggTrades">> THEN TransformAggTrade(record)
            ELSE IF data_type = <<"klines">> THEN TransformKline(record)
            ELSE IF data_type = <<"depth", "snapshots">>
                 THEN TransformDepthSnapshot(record)
                 ELSE {}
    IN UNION {Transformed(raw_records[i]) : i \in 1..Len(raw_records)}

\* etl_orchestrator.py _process_file_batch on one object of the writer: read,
\* transform, write_batch; the keys of the rows whose INSERT succeeds
EtlConsumes(object) ==
    LET file_info == ExtractMetadataFromKey(object.key)
        rows == Transform(object.records, file_info)
    IN /\ pw' = [pw EXCEPT !.last =
                    [kind |-> "consumed", records |-> object.records,
                     rows |-> {UniqueKey(row) : row \in
                                 {r \in rows : Execute(EmptyBag, r) = "inserted"}}]]
       /\ UNCHANGED <<bucket, pw_now>>

NextWriter ==
    \/ \E ok \in BOOLEAN :
          \/ \E trades \in ListsOf(OfKind("aggTrade")) : WriteAggTrades(trades, ok)
          \/ \E trades \in ListsOf(OfKind("trade")) : WriteTrades(trades, ok)
          \/ \E interval \in KlineIntervals :
                \E klines \in ListsOf(OfKind("kline")) : WriteKlines(klines, interval, ok)
          \/ \E depth \in OfKind("depth") : WriteDepthSnapshot(depth, ok)
          \/ \E b \in BufferNames :
                \/ \E record \in OfKind("aggTrade") : WriteBuffered(b, record, ok)
                \/ FlushAllBuffers(b, ok)
    \/ WriterTick
    \/ \E object \in bucket : EtlConsumes(object)


(***************************************************************************)
(* clients/binance_rest.py: backfill_agg_trades over get_agg_trades.       *)
(* The exchange holds the aggregate trades in the order of their ids; a    *)
(* trade is its event time T and its id is its position.  A request        *)
(* returns the first trades, at most the limit, with                       *)
(* startTime <= T <= endTime.  Times are counted in ticks from 1.          *)
(***************************************************************************)

\* limit of one request (1000 in the source)
PageLimit == 2

\* trades the exchange holds
MaxTrades == 3

\* latest event time of a trade; the window ends at MaxTradeTime + 1 at most
MaxTradeTime == 3

\* the event times of the exchange's trades, in the order of the ids
TradeTimes ==
    {T \in UNION {[1..n -> 1..MaxTradeTime] : n \in 0..MaxTrades} :
        \A i, j \in 1..Len(T) : i < j => T[i] <= T[j]}

VARIABLES
    bf   \* one call of backfill_agg_trades: pc, the exchange's trades, the
         \* window, current_start, and the ids yielded so far

bfVars == <<bf>>

InitBackfill ==
    bf = [pc |-> "idle"]

\* get_agg_trades(symbol, start_time, end_time, limit): the ids of the page
GetAggTrades(T, start_time, end_time, limit) ==
    LET matching == {i \in 1..Len(T) : start_time <= T[i] /\ T[i] <= end_time}
    IN {i \in matching : Cardinality({j \in matching : j < i}) < limit}

\* backfill_agg_trades is called without a checkpoint
BackfillCalled(T, start_time, end_time) ==
    /\ bf.pc = "idle"
    /\ bf' = [pc |-> IF start_time < end_time THEN "running" ELSE "done",
              trades |-> T, start |-> start_time, end_ts |-> end_time,
              current_start |-> start_time, yielded |-> <<>>]

\* the ids of a page in order
RECURSIVE InOrder(_)
InOrder(ids) ==
    IF ids = {} THEN <<>>
    ELSE LET first == CHOOSE i \in ids : \A j \in ids : i <= j
         IN <<first>> \o InOrder(ids \ {first})

\* the loop over the trades of a page: the cursor after the last of them
RECURSIVE CursorAfter(_, _, _)
CursorAfter(T, page, current_start) ==
    IF page = <<>> THEN current_start
    ELSE CursorAfter(T, Tail(page), NextStart(current_start, T[Head(page)]))

\* one turn of the while loop: the request, the yields, the cursor
BackfillPage ==
    /\ bf.pc = "running"
    /\ LET batch_end == Min(bf.current_start + BatchSpan, bf.end_ts)
           trades == InOrder(GetAggTrades(bf.trades, bf.current_start, batch_end, PageLimit))
           next == IF trades = <<>> THEN batch_end + 1
                   ELSE CursorAfter(bf.trades, trades, bf.current_start)
       IN bf' = [bf EXCEPT !.current_start = next,
                           !.yielded = @ \o trades,
                           !.pc = IF next < bf.end_ts THEN "running" ELSE "done"]

\* get_agg_trades raises and backfill_agg_trades raises in turn
BackfillRaises ==
    /\ bf.pc = "running"
    /\ bf' = [bf EXCEPT !.pc = "raised"]

NextBackfill ==
    \/ \E T \in TradeTimes : \E start_time \in 1..MaxTradeTime :
          \E end_time \in 1..(MaxTradeTime + 1) : BackfillCalled(T, start_time, end_time)
    \/ BackfillPage
    \/ BackfillRaises


(***************************************************************************)
(* The specifications                                                      *)
(***************************************************************************)
vars == <<cbVars, prodVars, limVars, ddVars, ckVars, dbVars, rtVars, sbeVars, aggVars, fbVars, kcVars, etlVars, pwVars, bfVars>>

Init ==
    /\ InitBreaker
    /\ InitProducer
    /\ InitLimiter
    /\ InitDedup
    /\ InitCheckpoint
    /\ InitDb
    /\ InitRetry
    /\ InitSbe
    /\ InitAggregator
    /\ InitFeatureBuilder
    /\ InitConsumer
    /\ InitEtl
    /\ InitWriter
    /\ InitBackfill

SpecBreaker == Init /\ [][NextBreaker /\ UNCHANGED <<prodVars, limVars, ddVars, ckVars, dbVars, rtVars, sbeVars, aggVars, fbVars, kcVars, etlVars, pwVars, bfVars>>]_vars

SpecProducer == Init /\ [][NextProducer /\ UNCHANGED <<cbVars, limVars, ddVars, ckVars, dbVars, rtVars, sbeVars, aggVars, fbVars, kcVars, etlVars, pwVars, bfVars>>]_vars

SpecDedup == Init /\ [][NextDedup /\ UNCHANGED <<cbVars, prodVars, limVars, ckVars, dbVars, rtVars, sbeVars, aggVars, fbVars, kcVars, etlVars, pwVars, bfVars>>]_vars

SpecCheckpoint ==
    Init /\ [][NextCheckpoint /\ UNCHANGED <<cbVars, prodVars, limVars, ddVars, dbVars, rtVars, sbeVars, aggVars, fbVars, kcVars, etlVars, pwVars, bfVars>>]_vars

SpecDb ==
    Init /\ [][NextDb /\ UNCHANGED <<cbVars, prodVars, limVars, ddVars, ckVars, rtVars, sbeVars, aggVars, fbVars, kcVars, etlVars, pwVars, bfVars>>]_vars

SpecRetry ==
    Init /\ [][NextRetry /\ UNCHANGED <<cbVars, prodVars, limVars, ddVars, ckVars, dbVars, sbeVars, aggVars, fbVars, kcVars, etlVars, pwVars, bfVars>>]_vars

SpecSbe ==
    Init /\ [][NextSbe /\ UNCHANGED <<cbVars, prodVars, limVars, ddVars, ckVars, dbVars, rtVars, aggVars, fbVars, kcVars, etlVars, pwVars, bfVars>>]_vars

SpecAggregator ==
    Init /\ [][NextAggregator /\ UNCHANGED <<cbVars, prodVars, limVars, ddVars, ckVars, dbVars, rtVars, sbeVars, fbVars, kcVars, etlVars, pwVars, bfVars>>]_vars

SpecFeatureBuilder ==
    Init /\ [][NextFeatureBuilder /\ UNCHANGED <<cbVars, prodVars, limVars, ddVars, ckVars, dbVars, rtVars, sbeVars, aggVars, kcVars, etlVars, pwVars, bfVars>>]_vars

SpecConsumer ==
    Init /\ [][NextConsumer /\ UNCHANGED <<cbVars, prodVars, limVars, ddVars, ckVars, dbVars, rtVars, sbeVars, aggVars, fbVars, etlVars, pwVars, bfVars>>]_vars

SpecEtl ==
    Init /\ [][NextEtl /\ UNCHANGED <<cbVars, prodVars, limVars, ddVars, ckVars, dbVars, rtVars, sbeVars, aggVars, fbVars, kcVars, pwVars, bfVars>>]_vars

SpecWriter ==
    Init /\ [][NextWriter /\ UNCHANGED <<cbVars, prodVars, limVars, ddVars, ckVars, dbVars, rtVars, sbeVars, aggVars, fbVars, kcVars, etlVars, bfVars>>]_vars

SpecBackfill ==
    Init /\ [][NextBackfill /\ UNCHANGED <<cbVars, prodVars, limVars, ddVars, ckVars, dbVars, rtVars, sbeVars, aggVars, fbVars, kcVars, etlVars, pwVars>>]_vars

SpecLimiter == Init /\ [][NextLimiter /\ UNCHANGED <<cbVars, prodVars, ddVars, ckVars, dbVars, rtVars, sbeVars, aggVars, fbVars, kcVars, etlVars, pwVars, bfVars>>]_vars

\* the event loop runs every task that is ready (the next waiter gets a free
\* lock, a sleeper whose time has come wakes) and the clock goes on
SpecLimiterLive ==
    /\ SpecLimiter
    /\ WF_limVars(AcquireToken)
    /\ WF_limVars(AcquireSleeps)
    /\ WF_limVars(AcquireWakes)
    /\ WF_limVars(LimTick)

(***************************************************************************)
(* C1 (P3, breaker safety): once failure_threshold consecutive calls have  *)
(* failed (with a failure the breaker records, i.e. of its                 *)
(* expected_exception class), every call made before recovery_timeout has  *)
(* elapsed since the last failure fails fast: func is not invoked.         *)
(***************************************************************************)
BreakerFailsFast ==
    (/\ cb_last.kind # "none"
     /\ cb_last.consec >= FailureThreshold
     /\ cb_last.since # None
     /\ cb_last.since < RecoveryTimeout)
    => cb_last.kind = "fastfail"

\* a call was made with the threshold reached and within the timeout
BreakerFailsFastWitness ==
    /\ cb_last.kind = "fastfail"
    /\ cb_last.consec >= FailureThreshold
    /\ cb_last.since # None
    /\ cb_last.since >= 1
    /\ cb_last.since < RecoveryTimeout


(***************************************************************************)
(* C2: records of one stream accepted by one producer reach the bus in the *)
(* order in which put_record accepted them (ids are assigned in that       *)
(* order), also when a flush fails, re-queues or retries.                  *)
(***************************************************************************)
BusKeepsAcceptOrder ==
    \A s \in Streams :
        \A i, j \in 1..Len(p_bus[s]) : i < j => p_bus[s][i] <= p_bus[s][j]

(***************************************************************************)
(* C3: right after a put_records response that reports per-record          *)
(* failures, the failed records are the first records of the stream's      *)
(* queue, in order, and each of them is queued exactly once.               *)
(***************************************************************************)
FailedRequeuedAtHeadOnce ==
    p_resp.kind = "partial" =>
        LET q == IdSeq(kp.batches[p_resp.stream])
        IN /\ IsPrefix(p_resp.failed, q)
           /\ \A i \in 1..Len(p_resp.failed) : Count(q, p_resp.failed[i]) = 1

(***************************************************************************)
(* C4: per stream at most one _flush_stream coroutine has a put_records    *)
(* call in progress.                                                       *)
(***************************************************************************)
InFlightPuts(s) == {o \in Owners : kp.flush[o][s].pc = "put"}

FlushSingleFlight ==
    \A s \in Streams : Cardinality(InFlightPuts(s)) <= 1

(***************************************************************************)
(* C9: while the producer runs and the stream's breaker is not OPEN, a     *)
(* queued record was accepted at most flush_interval plus one put latency  *)
(* ago.                                                                    *)
(***************************************************************************)
QueuedNoLongerThanFlushInterval ==
    p_phase = "running" =>
        \A s \in Streams :
            kp.cbs[s].state # "OPEN" =>
                \A i \in 1..Len(kp.batches[s]) :
                    p_now - kp.batches[s][i].ts <= FlushInterval + PutLatency

(***************************************************************************)
(* C10: when stop() has returned, every accepted record was acknowledged   *)
(* by the bus or counted in failed_records; a record whose put_records     *)
(* call or flush is still running is given the benefit of the doubt.       *)
(***************************************************************************)
Acknowledged == UNION {Range(p_bus[s]) : s \in Streams}

StillHeld ==
    UNION {Ids(kp.flush[o][s].records) : o \in Owners, s \in Streams}
        \cup UNION {Ids(p_orphan[s].records) : s \in Streams}

StopLosesNothing ==
    p_phase = "stopped" =>
        \A id \in 1..(p_nextId - 1) :
            id \in Acknowledged \cup kp.counted \cup StillHeld


(***************************************************************************)
(* C5: in every window of 60 seconds (Window ticks) at most Rate           *)
(* acquire() calls return.                                                 *)
(***************************************************************************)
ReturnsInWindow(t) ==
    Cardinality({i \in 1..Len(lim_returns) : t <= lim_returns[i] /\ lim_returns[i] < t + Window})

AtMostRatePerWindow ==
    \A t \in 0..MaxLimTime : ReturnsInWindow(t) <= Rate


(***************************************************************************)
(* C6 as stated: when is_unique returns True for an id for which it        *)
(* returned True before, at least window_seconds lie between the two.      *)
(***************************************************************************)
UniqueOncePerWindow ==
    (dd_call.kind = "is_unique" /\ dd_call.result /\ dd_call.previous # None)
        => dd_now - dd_call.previous >= WindowSeconds

(***************************************************************************)
(* C6 amended: the same, for an id whose entry the per-symbol size trim    *)
(* has not removed since the earlier True; sweeps and calls for other ids  *)
(* that evict nothing of this id do not bring a second True forward.       *)
(***************************************************************************)
UniqueOncePerWindowUnlessTrimmed ==
    (/\ dd_call.kind = "is_unique"
     /\ dd_call.result
     /\ dd_call.previous # None
     /\ ~dd_call.trimmed)
        => dd_now - dd_call.previous >= WindowSeconds

UniqueOncePerWindowWitness ==
    /\ dd_call.kind = "is_unique"
    /\ dd_call.result
    /\ dd_call.previous # None
    /\ ~dd_call.trimmed
    /\ dd_call.swept
    /\ dd.stats.duplicates_found > 0
    /\ dd.stats.records_cleaned > 0


(***************************************************************************)
(* C7: for one symbol's aggTrades the last_timestamp written to the        *)
(* backfill checkpoint never decreases from one write to the next, within  *)
(* a backfill and from one scheduler cycle to the next.                    *)
(***************************************************************************)
CheckpointNeverDecreases ==
    ck_batch.previous # None => ck_batch.last >= ck_batch.previous


(***************************************************************************)
(* C8: the table never holds two rows with the same (symbol, timestamp,    *)
(* data_type, COALESCE(trade_id, 0)); an insert of a row whose key is in   *)
(* the table leaves the table as it was, adds exactly 1 to                 *)
(* duplicate_skips and nothing to write_errors.                            *)
(***************************************************************************)
OneRowPerKey ==
    /\ \A r1, r2 \in BagToSet(db_table) :
          (/\ r1.symbol = r2.symbol
           /\ r1.timestamp = r2.timestamp
           /\ r1.data_type = r2.data_type
           /\ Coalesce(r1.trade_id, 0) = Coalesce(r2.trade_id, 0))
              => (r1 = r2 /\ CopiesIn(r1, db_table) = 1)
    /\ (db_insert.kind = "insert" /\ db_insert.key_present)
          => /\ db_insert.table_kept
             /\ db_insert.skips = 1
             /\ db_insert.errors = 0

OneRowPerKeyWitness ==
    /\ db_insert.kind = "insert"
    /\ db_insert.key_present
    /\ db_insert.skips = 1
    /\ BagCardinality(db_table) >= 2
    /\ db_stats.write_errors > 0


(***************************************************************************)
(* C11: once a stream's queue is longer than the high-water mark, records  *)
(* are dropped instead of queued: no step of the producer makes a queue    *)
(* that is above the mark any longer.                                      *)
(***************************************************************************)
DropsAboveHighWater ==
    [][\A s \in Streams :
          Len(kp.batches[s]) > HighWater => Len(kp'.batches[s]) <= Len(kp.batches[s])]_vars


(***************************************************************************)
(* C12: every put_records call carries at most batch_size records, in a    *)
(* running flush as well as in a call left behind in the executor.         *)
(***************************************************************************)
PutCarriesAtMostBatchSize ==
    /\ \A o \in Owners, s \in Streams :
          kp.flush[o][s].pc = "put" => Len(kp.flush[o][s].records) <= BatchSize
    /\ \A s \in Streams :
          p_orphan[s].pc = "put" => Len(p_orphan[s].records) <= BatchSize


(***************************************************************************)
(* C13: when a flush of a stream ends in an exception and it is the 5th    *)
(* (FailureThreshold-th) or a later one in a row for that stream, the      *)
(* stream's breaker is OPEN and a flush started at that moment fails fast: *)
(* it makes no put_records call and its records stay queued.               *)
(***************************************************************************)
FailedFlushesOpenBreaker ==
    [][\A s \in Streams :
          (/\ kp'.consec_failed[s] > kp.consec_failed[s]
           /\ kp'.consec_failed[s] >= FailureThreshold)
          => (/\ kp'.cbs[s].state = "OPEN"
              /\ FailsFast(kp'.cbs[s], p_now'))]_vars


ProbeFailureReopens ==
    /\ (cb_ret.kind = "failure" /\ cb_ret.probe /\ cb_ret.before = "HALF_OPEN")
          => cb_ret.after = "OPEN"
    /\ cb.state = "HALF_OPEN" => cb_probes > 0


(***************************************************************************)
(* C16: exponential_backoff invokes func at most max_attempts times; what  *)
(* it returns is the result of the first invocation that succeeded (all    *)
(* earlier ones failed with the caught class); when max_attempts           *)
(* invocations have failed with the caught class it has raised the last    *)
(* of these failures and has slept max_attempts - 1 times, not once more.  *)
(***************************************************************************)
RetryAtMostMaxAttempts ==
    /\ Len(rt.outcomes) <= rt.max_attempts
    /\ (rt.pc = "returned" /\ rt.max_attempts > 0)
          => /\ rt.result = Len(rt.outcomes)
             /\ rt.outcomes[rt.result] = "ok"
             /\ \A i \in 1..(rt.result - 1) : rt.outcomes[i] \in {"fail", "429"}
    /\ (/\ rt.max_attempts > 0
        /\ Len(rt.outcomes) = rt.max_attempts
        /\ \A i \in 1..Len(rt.outcomes) : rt.outcomes[i] \in {"fail", "429"})
          => /\ rt.pc = "raised"
             /\ rt.raised = rt.max_attempts
             /\ Len(rt.slept) = rt.max_attempts - 1

\* every one of MaxTries attempts failed and the last failure was raised
RetryAtMostMaxAttemptsWitness ==
    /\ rt.max_attempts = MaxTries
    /\ rt.pc = "raised"
    /\ Len(rt.outcomes) = MaxTries
    /\ Len(rt.slept) = MaxTries - 1


(***************************************************************************)
(* C17 as stated (P2): the delay slept between attempt i and attempt i+1,  *)
(* i counted from 0, is at least initial * multiplier^i * 0.75 and at most *)
(* max_delay * 1.25.  Delays are in quarter units.                         *)
(***************************************************************************)
BackoffDelayBounds ==
    \A k \in 1..Len(rt.slept) :
        /\ rt.slept[k] >= 3 * InitialDelay * Pow(BackoffFactor, k - 1)
        /\ rt.slept[k] <= 5 * MaxDelay

(***************************************************************************)
(* C17 amended: the delay is at least min(initial * multiplier^i * 0.75,   *)
(* max_delay) and at most max_delay: the cap is applied after the jitter.  *)
(***************************************************************************)
BackoffDelayBoundsCapped ==
    \A k \in 1..Len(rt.slept) :
        /\ rt.slept[k] >= Min(3 * InitialDelay * Pow(BackoffFactor, k - 1), 4 * MaxDelay)
        /\ rt.slept[k] <= 4 * MaxDelay

\* a jittered delay at its lower end, then a delay cut to max_delay
BackoffDelayBoundsCappedWitness ==
    /\ rt.jitter
    /\ Len(rt.slept) >= 3
    /\ rt.slept[1] = 3 * InitialDelay
    /\ rt.slept[3] = 4 * MaxDelay
    /\ 3 * InitialDelay * Pow(BackoffFactor, 2) > 4 * MaxDelay


(***************************************************************************)
(* C18: every acquire() call eventually returns: a caller that is inside   *)
(* acquire(), waiting for the lock or sleeping with it, eventually is not. *)
(***************************************************************************)
AcquireEventuallyReturns ==
    \A c \in Callers : (c \in Range(lim_queue)) ~> (c \notin Range(lim_queue))

\* a caller waits for the lock while another sleeps holding it
AcquireEventuallyReturnsWitness ==
    /\ Len(lim_queue) >= 2
    /\ lim_sleeper # None
    /\ lim_now < lim_sleeper


(***************************************************************************)
(* C19: a 429 answer does not use up an attempt of the retry policy: when  *)
(* the request is given up, max_attempts attempts have failed for another  *)
(* reason than a 429, and the request was sent again after every 429.      *)
(***************************************************************************)
RetryAfterNotCounted ==
    rt.pc = "raised" =>
        /\ Count(rt.outcomes, "fail") = rt.max_attempts
        /\ rt.outcomes[Len(rt.outcomes)] # "429"


(***************************************************************************)
(* C20: before every connection attempt the client waits                   *)
(* min(2^attempts, 60) seconds, and start_streaming ends only when 10      *)
(* connection attempts in a row have failed.                               *)
(***************************************************************************)
StopsOnlyAfterMaxAttempts ==
    /\ sbe.pc = "sleep" => sbe.delay = Min(Pow(2, sbe.reconnect_attempts), MaxReconnectDelay)
    /\ sbe.pc = "stopped" => sbe_failed >= MaxReconnectAttempts


(***************************************************************************)
(* C21: a frame whose schemaId or version is not the expected one is       *)
(* dropped, no message is yielded and no handler called for it, and        *)
(* decode_errors has grown by exactly 1 when the frame has been handled.   *)
(***************************************************************************)
SchemaMismatchCounted ==
    (sbe.last_frame.kind = "frame" /\ ~IsValidMessage(sbe.last_frame.frame))
        => /\ ~sbe.last_frame.yielded
           /\ ~sbe.last_frame.handled
           /\ sbe.decode_errors = sbe.last_frame.decode_errors_before + 1


\* C22: the aggregated windows of one (symbol, message type) do not overlap:
\* no message is a constituent of two windows, whichever of the aggregation
\* loop and the flush at shutdown drained them and however the arrival of
\* messages is interleaved with them.
WindowsDoNotOverlap ==
    \A i, j \in DOMAIN agg.windows :
        (i # j /\ agg.windows[i].key = agg.windows[j].key)
            => Range(agg.windows[i].msgs) \cap Range(agg.windows[j].msgs) = {}

\* two windows of one key, one drained by the loop and one by the flush
WindowsDoNotOverlapWitness ==
    \E i, j \in DOMAIN agg.windows :
        /\ agg.windows[i].key = agg.windows[j].key
        /\ agg.windows[i].by = "loop"
        /\ agg.windows[j].by = "flush"


\* C23: when a pass of the aggregation loop is over, every buffer that was
\* non-empty at the wake and held at least min_messages messages, or whose
\* last aggregation was max_interval or longer ago, has been aggregated in
\* that pass, also when messages for new keys arrived while the pass ran
\* (stop() not called).
DueBuffersAggregatedInPass ==
    (agg.loop.pc = "sleeping" /\ agg.stop.pc = "idle")
        => agg.loop.due \subseteq agg.loop.done


\* the messages of the windows whose feature record was written
WrittenMessages == UNION {Range(agg.windows[w].msgs) : w \in agg.written}

\* the messages of the windows a store operation is pending for
PendingMessages ==
    UNION {Range(agg.windows[w.win].msgs) : w \in {agg.loop.w, agg.stop.w} \ {NoWrite}}

\* C24: every message accepted into a buffer is still buffered, or in a window
\* whose write is pending, or a constituent of a written feature record, or
\* its loss was counted and logged; buffer overflow and failed builds and
\* writes included.
NoSilentLoss ==
    \A msg \in 1..(agg.nextId - 1) :
        msg \in Buffered(agg) \cup PendingMessages \cup WrittenMessages \cup agg.counted


\* C25: once the feature writes of a symbol have returned, its
\* features:<symbol>:latest key holds the value of the most recently written
\* features:<symbol>:<timestamp> key, set with the same TTL; writes of which
\* one store operation failed and writes for several message types included.
LatestIsMostRecent ==
    \A s \in AggSymbols :
        (/\ agg.recent[s] # None
         /\ \A w \in {agg.loop.w, agg.stop.w} \ {NoWrite} : w.symbol # s)
            => agg.latest[s] = agg.store[<<s, agg.recent[s]>>]


\* the messages of the window are all usable: trades with a positive price
\* and quantity, quotes with a positive bid and ask, depth snapshots with
\* levels on both sides
WellFormedWindow ==
    \A i \in DOMAIN fb.messages :
        LET msg == fb.messages[i]
        IN  CASE fb.message_type = "trade" -> msg.price > 0 /\ msg.qty > 0
              [] fb.message_type = "bestBidAsk" -> msg.bid_px > 0 /\ msg.ask_px > 0
              [] fb.message_type = "depth" -> msg.bids > 0 /\ msg.asks > 0

\* C26 (P9): for a triggered window of any message type (trade, bestBidAsk,
\* depth) a feature record is produced that has every feature field of the
\* message type and the metadata fields (here for windows of usable messages).
FeatureSchemaClosure ==
    (fb.pc = "built" /\ WellFormedWindow)
        => /\ fb.features # NoFeatures
           /\ FeatureFields(fb.message_type) \cup MetadataFields \subseteq fb.features.fields

\* C27: for a trade window with positive total volume, sell_volume is the
\* summed quantity of the buyer-maker trades, buy_volume that of the others,
\* and volume_imbalance = (buy_volume - sell_volume) / total volume.
TradeVolumeFeatures ==
    (fb.pc = "built" /\ fb.message_type = "trade" /\ WellFormedWindow
                     /\ SumQty(fb.messages) > 0)
        => /\ fb.features # NoFeatures
           /\ fb.features.sell_volume
                  = SumQty(SelectSeq(fb.messages, LAMBDA t : t.is_buyer_maker))
           /\ fb.features.buy_volume
                  = SumQty(SelectSeq(fb.messages, LAMBDA t : ~t.is_buyer_maker))
           /\ fb.features.volume_imbalance.num * SumQty(fb.messages)
                  = (fb.features.buy_volume - fb.features.sell_volume)
                        * fb.features.volume_imbalance.den


\* C28: once stop() has been called and the hot-store connection is closed,
\* no message that was buffered at the call is still in a buffer, the feature
\* record of every trade window holding such a message has been written, and
\* after the drain the buffers stay empty (here for runs in which no store
\* operation fails).
ShutdownDrain ==
    (agg.stop.pc # "idle" /\ ~agg.client /\ agg.faults = 0)
        => /\ agg.held \cap Buffered(agg) = {}
           /\ \A w \in DOMAIN agg.windows :
                  (agg.windows[w].key[2] = "trade" /\ Range(agg.windows[w].msgs) \cap agg.held # {})
                      => w \in agg.written
           /\ agg.stop.pc = "stopped" => Buffered(agg) = {}


\* C29: when get_records has failed with ExpiredIterator and a sequence number
\* is remembered for the shard, the iterator was re-opened with
\* AFTER_SEQUENCE_NUMBER at the record after the last one emitted, and the
\* consumption goes on without a gap: between two records emitted one after
\* the other the shard holds no record that decodes.
ResumesAfterLastEmitted ==
    /\ (kc.refresh.kind = "refresh" /\ kc.refresh.last_seq # None)
           => /\ kc.refresh.type = "AFTER_SEQUENCE_NUMBER"
              /\ kc.refresh.pos = kc.refresh.last_emitted + 1
    /\ \A i \in 1..(Len(kc.emitted) - 1) :
           /\ kc.emitted[i] < kc.emitted[i + 1]
           /\ \A n \in (kc.emitted[i] + 1)..(kc.emitted[i + 1] - 1) : ~shard[n]

\* the iterator expired after a record was emitted, was re-opened behind
\* records not yet read, and a record was emitted after the re-opening
ResumesAfterLastEmittedWitness ==
    /\ kc.refresh.kind = "refresh"
    /\ kc.refresh.last_seq # None
    /\ kc.emitted # <<>>
    /\ kc.emitted[Len(kc.emitted)] > kc.refresh.last_emitted
    /\ kc.iterator.pos > kc.refresh.pos


\* C30: over any number of ETL cycles a partition object is read at most
\* once, transformed at most once and written to the relational store at most
\* once, also in the cycles after its read, transform or write has failed.
ProcessedAtMostOnce ==
    \A k \in Objects : etl.reads[k] <= 1 /\ etl.transforms[k] <= 1 /\ etl.writes[k] <= 1

\* an object whose read failed is still in the store, unprocessed, and a
\* later cycle has run to its end
ProcessedAtMostOnceWitness ==
    \E k, o \in Objects :
        /\ etl.reads[k] = 1
        /\ k \notin etl.processed_files
        /\ etl.writes[o] = 1
        /\ s3[o] > s3[k]
        /\ etl.pc = "idle"


\* C31: when the processing of files has failed in one cycle, the next cycle
\* processes them again: whenever the loop is between two cycles, the
\* discovery of the next cycle returns every file whose processing failed.
FailedFilesRetried ==
    etl.pc = "idle" => etl.failed \subseteq Range(DiscoverNewFiles(etl, s3, etl_now))



\* the key (symbol, timestamp, data_type, trade_id) that the row of an input
\* record has: event_ts and trade_id of a trade, open_time of a kline, the
\* time of the snapshot
DerivedKey(record) ==
    <<record.symbol, record.ts, record.kind, Coalesce(record.trade_id, 0)>>

\* C32: when the ETL consumes an object that the partition writer wrote, the
\* keys (symbol, timestamp, data_type, trade_id) of the rows it inserts are
\* the keys derived from the records that the writer put into the object
RoundTripKeepsKeys ==
    pw.last.kind = "consumed" =>
        pw.last.rows = {DerivedKey(pw.last.records[i]) : i \in 1..Len(pw.last.records)}

\* C33: no two put_object calls of the partition writer use the same key
WriterKeysUnique ==
    \A i, j \in 1..Len(pw.puts) : i # j => pw.puts[i] # pw.puts[j]

\* C34: a flushed buffer is written under a key that carries the symbol and
\* the data type of the name f"{symbol}_{data_type}" it was buffered under
FlushKeepsDataTypeAndSymbol ==
    pw.last.kind = "flush" /\ pw.last.ok =>
        \E b \in BufferNames :
            /\ pw.last.key.symbol = b[1]
            /\ pw.last.key.data_type = Tail(b)



\* C35: when a collection cycle ends after a request failed, the cursor
\* current_start marks the first time whose trades were not collected; the
\* stored checkpoint does not move the next cycle's window past that cursor
FailedCycleKeepsCheckpoint ==
    [][ (/\ ck_cycle.pc = "backfill"
         /\ ck_cycle'.pc = "wait"
         /\ ck_cycle.current_start < ck_cycle.end_ts
         /\ ck_saved' # None)
        => CollectionStart(ck_saved', ck_now') <= ck_cycle.current_start ]_vars



\* C36: no record reaches the bus twice: the ids that put_records responses
\* acknowledged for a stream are pairwise distinct
AcknowledgedOnce ==
    \A s \in Streams :
        \A i, j \in 1..Len(p_bus[s]) : i # j => p_bus[s][i] # p_bus[s][j]



\* C37: when backfill_agg_trades has returned, it has yielded every trade
\* with start <= event_ts < end exactly once
BackfillComplete ==
    bf.pc = "done" =>
        \A i \in 1..Len(bf.trades) :
            (bf.start <= bf.trades[i] /\ bf.trades[i] < bf.end_ts)
                => Count(bf.yielded, i) = 1



\* C38: every object under the bronze prefix is read in some cycle: whenever
\* the loop is between two cycles, an object that no cycle has read yet is
\* among the files the next discovery returns (the time below which the
\* discovery skips objects never decreases, so an object it skips now is
\* skipped by every later discovery)
UnreadObjectsDiscovered ==
    etl.pc = "idle" =>
        \A k \in Objects :
            (s3[k] # None /\ etl.reads[k] = 0)
                => k \in Range(DiscoverNewFiles(etl, s3, etl_now))



\* C39: no error ends the consumption of a shard: the shard of a started
\* consumer stays in _shard_iterators, the only place consume_messages takes
\* the shards of a round from and that only start() fills
ShardStaysPolled ==
    kc.pc # "new" => kc.pc = "running"



\* the records put to the producer for one frame: every call of a handler
\* that _register_sbe_handlers registered puts one record
RecordsPut(f) ==
    (IF f.handled THEN 1 ELSE 0) + (IF f.processed THEN 1 ELSE 0)

\* C40: a decoded streaming message is handed to the handler of its type
\* exactly once, so that one received message puts exactly one record to the
\* producer
DispatchedOnce ==
    (sbe.last_frame.kind = "frame" /\ sbe.last_frame.yielded)
        => RecordsPut(sbe.last_frame) = 1

=============================================================================
